---- MODULE Spec2Model ----
(***************************************************************************)
(* lecture-summarizer-ai: a browser UI that turns audio into a transcript  *)
(* (batch file strategy: src/src/components/VoiceRecorder.tsx, second      *)
(* component of the file, lines 304-707; live dictation strategy:          *)
(* src/unnamed/part_000), hands the transcript to the host page            *)
(* (src/unnamed/part_004) and formats study notes from it                  *)
(* (src/src/components/NotesGenerator.tsx).                                *)
(*                                                                         *)
(* A JavaScript string is a sequence of one-character strings, so that     *)
(* split, join, trim and toLowerCase do what the code does to characters.  *)
(***************************************************************************)
EXTENDS Integers, Sequences, FiniteSets, TLC

VARIABLES
  \* ---- text post-processing, run on its own (transcribeAudio, 456-481)
  engineResult,  \* result, when the normalisation is run on its own
  inText,      \* transcribedText as normalised from the engine result
  outWords,    \* cleanedWords
  outText,     \* transcribedText as handed to setTranscription
  stage,       \* "result" -> "raw" -> "cleaned" -> "done"
  \* ---- batch strategy (VoiceRecorder.tsx, 315-378)
  transcription,   \* useState('')
  isTranscribing,  \* useState(false)
  uploadedFile,    \* useState<File | null>(null)
  audioUrl,        \* useState<string | null>(null); 0 is null
  objectUrls,      \* every URL.createObjectURL so far, in order: kind, revoked
  probes,          \* throwaway Audio elements whose metadata is still loading
  jobs,            \* transcribeAudio calls suspended at an await
  toast,           \* title of the last toast shown
  \* ---- live strategy (part_000), which shares transcription,
  \*      isTranscribing and toast with the batch component
  isRecording,           \* useState(false)
  interimTranscription,  \* useState('')
  recognitionRef,        \* useRef(null): index into sessions, 0 is null
  sessions,              \* the SpeechRecognition objects created so far
  pendingStarts,         \* startRecording calls awaiting getUserMedia
  eventCount,            \* result events delivered so far
  resultCalls,           \* onTranscriptionComplete calls made by onresult
  \* ---- which recorder component the page mounts
  strategy,
  \* ---- host page (part_004)
  hostTranscription,  \* Index: useState('')
  hostCalls,          \* calls of handleTranscriptionComplete so far, modulo 2
  \* ---- notes formatter (NotesGenerator.tsx, 19-20)
  notes,         \* useState<NotesData | null>(null): <<>> or one record
  isGenerating,  \* useState(false)
  generations,   \* generateNotes calls waiting for their 2 s timer, in order
  copied,        \* useState(false)
  copyTimers,    \* setTimeout(() => setCopied(false), 2000) not yet fired
  clipboardWrites,  \* texts of the clipboard.writeText calls not yet settled
  clipboard,     \* the text last written to the clipboard; <<>> before
  download       \* the content of the file last downloaded; <<>> before

textVars == <<engineResult, inText, outWords, outText, stage>>
batchVars ==
  <<transcription, isTranscribing, uploadedFile, audioUrl, objectUrls, probes,
    jobs, toast>>
liveVars ==
  <<isRecording, interimTranscription, recognitionRef, sessions,
    pendingStarts, eventCount, resultCalls>>
hostVars == <<hostTranscription, hostCalls>>
exportVars == <<copied, copyTimers, clipboardWrites, clipboard, download>>
notesVars == <<notes, isGenerating, generations, exportVars>>
vars == <<textVars, batchVars, liveVars, strategy, hostVars, notesVars>>

(***************************************************************************)
(* Strings                                                                 *)
(***************************************************************************)

\* JavaScript's \s, as far as the alphabets used here go.
Whitespace == {" ", "\n", "\t"}

IsSpace(c) == c \in Whitespace

\* A function over 1..n as a sequence value.
AsSeq(f) == <<>> \o f

UpperLetters ==
  <<"A", "B", "C", "D", "E", "F", "G", "H", "I", "J", "K", "L", "M", "N",
    "O", "P", "Q", "R", "S", "T", "U", "V", "W", "X", "Y", "Z">>

LowerLetters ==
  <<"a", "b", "c", "d", "e", "f", "g", "h", "i", "j", "k", "l", "m", "n",
    "o", "p", "q", "r", "s", "t", "u", "v", "w", "x", "y", "z">>

\* String.prototype.toLowerCase, on ASCII.
LowerChar(c) ==
  IF \E i \in 1..26 : UpperLetters[i] = c
    THEN LowerLetters[CHOOSE i \in 1..26 : UpperLetters[i] = c]
    ELSE c

toLowerCase(s) == AsSeq([i \in 1..Len(s) |-> LowerChar(s[i])])

\* The places where a maximal run of non-whitespace characters starts, in
\* increasing order, among lo..hi.
IsWordStart(s, i) == ~IsSpace(s[i]) /\ (i = 1 \/ IsSpace(s[i - 1]))

IsWordEnd(s, i) == ~IsSpace(s[i]) /\ (i = Len(s) \/ IsSpace(s[i + 1]))

RECURSIVE WordStarts(_, _, _)
WordStarts(s, lo, hi) ==
  IF lo > hi THEN <<>>
  ELSE IF lo = hi THEN (IF IsWordStart(s, lo) THEN <<lo>> ELSE <<>>)
  ELSE LET mid == (lo + hi) \div 2
       IN WordStarts(s, lo, mid) \o WordStarts(s, mid + 1, hi)

RECURSIVE WordEnds(_, _, _)
WordEnds(s, lo, hi) ==
  IF lo > hi THEN <<>>
  ELSE IF lo = hi THEN (IF IsWordEnd(s, lo) THEN <<lo>> ELSE <<>>)
  ELSE LET mid == (lo + hi) \div 2
       IN WordEnds(s, lo, mid) \o WordEnds(s, mid + 1, hi)

\* s.split(/\s+/).filter(w => w.length > 0): the maximal runs of
\* non-whitespace characters, in order.
SplitWords(s) ==
  LET st == WordStarts(s, 1, Len(s))
      en == WordEnds(s, 1, Len(s))
  IN AsSeq([k \in 1..Len(st) |-> SubSeq(s, st[k], en[k])])

\* words.join(' ')
RECURSIVE JoinRange(_, _, _)
JoinRange(ws, lo, hi) ==
  IF lo > hi THEN <<>>
  ELSE IF lo = hi THEN ws[lo]
  ELSE LET mid == (lo + hi) \div 2
       IN JoinRange(ws, lo, mid) \o <<" ">> \o JoinRange(ws, mid + 1, hi)

Join(ws) == JoinRange(ws, 1, Len(ws))

\* Strings appended one after the other.
RECURSIVE Flatten(_)
Flatten(pieces) ==
  IF pieces = <<>> THEN <<>> ELSE Head(pieces) \o Flatten(Tail(pieces))

(***************************************************************************)
(* Batch strategy: cleanup of the transcribed text                         *)
(***************************************************************************)

NoSpeechText ==
  <<"N", "o", " ", "s", "p", "e", "e", "c", "h", " ", "d", "e", "t", "e",
    "c", "t", "e", "d", " ", "i", "n", " ", "t", "h", "e", " ", "a", "u",
    "d", "i", "o", " ", "f", "i", "l", "e", ".">>

TruncationMarker ==
  <<"\n", "\n", "[", "T", "r", "a", "n", "s", "c", "r", "i", "p", "t", "i",
    "o", "n", " ", "t", "r", "u", "n", "c", "a", "t", "e", "d", " ", "a",
    "t", " ", "5", "0", ",", "0", "0", "0", " ", "w", "o", "r", "d", "s",
    "]">>

WordLimit == 50000

\* A comparison that tells cases apart, to compare SameWord with.
SameWordExact(currentWord, nextWord) == currentWord = nextWord

\* currentWord.toLowerCase() !== nextWord.toLowerCase(), negated.
SameWord(currentWord, nextWord) ==
  toLowerCase(currentWord) = toLowerCase(nextWord)

\* A loop test that reads the word after the next one, to compare KeepsWord
\* with.
KeepsWordLookingTwoAhead(words, i) ==
  Len(words[i]) > 0 /\ (i + 2 > Len(words) \/ ~SameWord(words[i], words[i + 2]))

\* The test of the loop body at index i (1-based): push words[i] unless there
\* is a next word and it is the same word.
KeepsWord(words, i) ==
  Len(words[i]) > 0 /\ (i = Len(words) \/ ~SameWord(words[i], words[i + 1]))

\* The words the loop pushes while i runs over lo..hi, in order.
RECURSIVE CleanRange(_, _, _)
CleanRange(words, lo, hi) ==
  IF lo > hi THEN <<>>
  ELSE IF lo = hi THEN (IF KeepsWord(words, lo) THEN <<words[lo]>> ELSE <<>>)
  ELSE LET mid == (lo + hi) \div 2
       IN CleanRange(words, lo, mid) \o CleanRange(words, mid + 1, hi)

CleanWords(words) == CleanRange(words, 1, Len(words))

\* A limit test that already fires at the limit, to compare OverLimit with.
OverLimitInclusive(cleanedWords) == Len(cleanedWords) >= WordLimit

OverLimit(cleanedWords) == Len(cleanedWords) > WordLimit

\* transcribedText after the join, the "No speech" default and the cap.
FinalText(cleanedWords) ==
  LET joined == Join(cleanedWords)
      text == IF Len(joined) = 0 THEN NoSpeechText ELSE joined
  IN IF OverLimit(cleanedWords)
       THEN Join(SubSeq(cleanedWords, 1, WordLimit)) \o TruncationMarker
       ELSE text

(***************************************************************************)
(* Batch strategy: state                                                   *)
(***************************************************************************)

AllowedTypes == {"audio/mp3", "audio/mpeg", "audio/wav", "audio/wave"}

MaxMinutes == 40

\* audio.duration of a file the throwaway decoder cannot load.
Undecodable == -1

NoFile == [type |-> "", duration |-> 0]

HostIdle ==
  /\ hostTranscription = <<>>
  /\ hostCalls = 0

\* Index.handleTranscriptionComplete (part_004, 8-10), which both recorders
\* get as onTranscriptionComplete.
NotifyHost(text) ==
  /\ hostTranscription' = text
  /\ hostCalls' = (hostCalls + 1) % 2

\* useState initial values, and nothing created yet.
BatchIdle ==
  /\ transcription = <<>>
  /\ isTranscribing = FALSE
  /\ uploadedFile = NoFile
  /\ audioUrl = 0
  /\ objectUrls = <<>>
  /\ probes = {}
  /\ jobs = <<>>
  /\ toast = ""

LiveIdle ==
  /\ isRecording = FALSE
  /\ interimTranscription = <<>>
  /\ recognitionRef = 0
  /\ sessions = <<>>
  /\ pendingStarts = 0
  /\ eventCount = 0
  /\ resultCalls = 0

ExportIdle ==
  /\ copied = FALSE
  /\ copyTimers = 0
  /\ clipboardWrites = <<>>
  /\ clipboard = <<>>
  /\ download = <<>>

NotesIdle ==
  /\ notes = <<>>
  /\ isGenerating = FALSE
  /\ generations = <<>>
  /\ ExportIdle

(***************************************************************************)
(* Inputs of the text post-processing                                      *)
(***************************************************************************)

MaxLen == 5
MaxOver == 2

Alphabet == {"a", "A", "b", " "}

ShortTexts == UNION {[1..n -> Alphabet] : n \in 0..MaxLen}

\* A text of n one-letter words separated by single blanks; with dup, its
\* first two words are the same word in different case.
LongText(n, dup) ==
  AsSeq([i \in 1..(2 * n - 1) |->
    IF i % 2 = 0 THEN " "
    ELSE LET k == (i + 1) \div 2
         IN IF dup /\ k = 1 THEN "A"
            ELSE IF (k % 2 = 0) = dup THEN "a" ELSE "b"])

LongTexts ==
  {LongText(WordLimit + d, dup) : d \in 0..MaxOver, dup \in BOOLEAN}

\* A result of none of the shapes transcribeAudio knows.
NoResult == [kind |-> "none", text |-> <<>>, items |-> <<>>]

TextInit(texts) ==
  /\ engineResult = NoResult
  /\ inText \in texts
  /\ outWords = <<>>
  /\ outText = <<>>
  /\ stage = "raw"
  /\ BatchIdle
  /\ LiveIdle
  /\ strategy = "none"
  /\ HostIdle
  /\ NotesIdle

\* Lines 456-470.
Cleanup ==
  /\ stage = "raw"
  /\ outWords' = CleanWords(SplitWords(inText))
  /\ stage' = "cleaned"
  /\ UNCHANGED <<engineResult, inText, outText, batchVars, liveVars, strategy, hostVars, notesVars>>

\* Lines 470-481.
Finish ==
  /\ stage = "cleaned"
  /\ outText' = FinalText(outWords)
  /\ stage' = "done"
  /\ UNCHANGED <<engineResult, inText, outWords, batchVars, liveVars, strategy, hostVars, notesVars>>

TextNext == Cleanup \/ Finish

SpecWords == TextInit(ShortTexts) /\ [][TextNext]_vars

SpecText == TextInit(ShortTexts \cup LongTexts) /\ [][TextNext]_vars

(***************************************************************************)
(* Batch strategy: upload, transcribe, clear                               *)
(***************************************************************************)

\* String.prototype.trim
RECURSIVE TrimStart(_)
TrimStart(s) ==
  IF Len(s) > 0 /\ IsSpace(s[1]) THEN TrimStart(Tail(s)) ELSE s

RECURSIVE TrimEnd(_)
TrimEnd(s) ==
  IF Len(s) > 0 /\ IsSpace(s[Len(s)])
    THEN TrimEnd(SubSeq(s, 1, Len(s) - 1))
    ELSE s

Trim(s) == TrimEnd(TrimStart(s))

\* An engine result is a string ("string"), an array ("array", of items), an
\* object with a text field ("text"), an object with a chunks array and no
\* text field ("chunks"), or anything else ("none"). An item of an array is a
\* string ("string"), an object with a text field ("text") or anything else.
ItemText(item) ==
  IF item.kind \in {"string", "text"} THEN item.text ELSE <<>>

\* chunk.text || ''
ChunkText(chunk) == IF chunk.kind = "text" THEN chunk.text ELSE <<>>

\* A normalisation that joins the fragments without a blank, to compare
\* Normalize with.
NormalizeConcatenating(result) ==
  CASE result.kind = "string" -> result.text
    [] result.kind = "array" ->
         Flatten([i \in 1..Len(result.items) |-> ItemText(result.items[i])])
    [] result.kind = "text" -> result.text
    [] result.kind = "chunks" ->
         Flatten([i \in 1..Len(result.items) |-> ChunkText(result.items[i])])
    [] OTHER -> <<>>

\* Lines 422-452.
Normalize(result) ==
  CASE result.kind = "string" -> result.text
    [] result.kind = "array" ->
         Trim(Join([i \in 1..Len(result.items) |-> ItemText(result.items[i])]))
    [] result.kind = "text" -> result.text
    [] result.kind = "chunks" ->
         Trim(Join([i \in 1..Len(result.items) |-> ChunkText(result.items[i])]))
    [] OTHER -> <<>>

\* The text transcribeAudio stores for an engine result.
Transcribed(result) == FinalText(CleanWords(SplitWords(Normalize(result))))

\* A type test on the major type only, to compare IsAllowedType with.
IsAllowedTypeByPrefix(type) ==
  type \in AllowedTypes \cup {"audio/ogg", "audio/webm"}

IsAllowedType(type) == type \in AllowedTypes

\* A duration test that already fires at 40 minutes, to compare TooLong with.
TooLongInclusive(duration) == duration >= MaxMinutes * 60

\* durationInMinutes > 40, with audio.duration in whole seconds.
TooLong(duration) == duration > MaxMinutes * 60

NewUrl(kind) == [kind |-> kind, revoked |-> FALSE]

\* A revocation without effect, to compare Revoke with.
RevokeNothing(urls, url) == urls

\* URL.revokeObjectURL(url)
Revoke(urls, url) == [urls EXCEPT ![url].revoked = TRUE]

RemoveAt(seq, i) == SubSeq(seq, 1, i - 1) \o SubSeq(seq, i + 1, Len(seq))

MaxUrls == 3
MaxJobs == 2
MaxDownloads == 1

\* The object URLs created so far for downloads of the transcript.
TranscriptUrls ==
  {url \in 1..Len(objectUrls) : objectUrls[url].kind = "transcript"}

\* Files the user may pick: every allowed type, a type that is not allowed,
\* and durations of exactly 40 minutes, one second more, 41 minutes, and none.
Files ==
  { [type |-> "audio/mp3", duration |-> MaxMinutes * 60],
    [type |-> "audio/wav", duration |-> MaxMinutes * 60],
    [type |-> "audio/mpeg", duration |-> MaxMinutes * 60 + 1],
    [type |-> "audio/wav", duration |-> (MaxMinutes + 1) * 60],
    [type |-> "audio/wave", duration |-> Undecodable],
    [type |-> "audio/ogg", duration |-> MaxMinutes * 60],
    [type |-> "audio/ogg", duration |-> (MaxMinutes + 1) * 60] }

Str_aab == <<"a", " ", "a", " ", "b">>
Str_b == <<"b">>
Str_ba == <<"b", " ", "a">>

EngineResults ==
  { [kind |-> "string", text |-> Str_aab, items |-> <<>>],
    [kind |-> "array", text |-> <<>>,
     items |-> <<[kind |-> "text", text |-> Str_b],
                 [kind |-> "text", text |-> Str_ba]>>],
    [kind |-> "none", text |-> <<>>, items |-> <<>>] }

\* ---- the normalisation of the engine result, run on its own

MaxItems == 2

\* The text of an item or chunk.
Fragments == {<<>>, <<" ">>, Str_b, Str_ba, <<" ", "a">>}

\* The items of an array result: strings, objects with a text, other things.
Items ==
  [kind : {"string", "text"}, text : Fragments]
    \cup {[kind |-> "other", text |-> <<>>]}

\* The chunks of a chunks array: objects with a text (which may be empty),
\* or without one.
Chunks == [kind : {"text"}, text : Fragments] \cup {[kind |-> "other", text |-> <<>>]}

SeqsUpTo(S, n) == UNION {[1..k -> S] : k \in 0..n}

\* Results of every shape: a string, an object with a text field with or
\* without a chunks array beside it, an array, an object with a chunks array
\* only, and something else.
ResultShapes ==
  {[kind |-> "string", text |-> f, items |-> <<>>] : f \in Fragments}
    \cup [kind : {"text"}, text : Fragments, items : SeqsUpTo(Chunks, 1)]
    \cup [kind : {"array"}, text : {<<>>}, items : SeqsUpTo(Items, MaxItems)]
    \cup [kind : {"chunks"}, text : {<<>>}, items : SeqsUpTo(Chunks, MaxItems)]
    \cup {NoResult}

ResultInit ==
  /\ engineResult \in ResultShapes
  /\ inText = <<>>
  /\ outWords = <<>>
  /\ outText = <<>>
  /\ stage = "result"
  /\ BatchIdle
  /\ LiveIdle
  /\ strategy = "none"
  /\ HostIdle
  /\ NotesIdle

\* Lines 422-452.
NormalizeResult ==
  /\ stage = "result"
  /\ inText' = Normalize(engineResult)
  /\ stage' = "raw"
  /\ UNCHANGED <<engineResult, outWords, outText, batchVars, liveVars,
                 strategy, hostVars, notesVars>>

ResultNext == NormalizeResult \/ Cleanup \/ Finish

SpecResult == ResultInit /\ [][ResultNext]_vars

\* handleFileUpload (326-378), up to audio.src = url.
HandleFileUpload(file) ==
  /\ strategy = "batch"
  /\ IF ~IsAllowedType(file.type)
       THEN /\ toast' = "Invalid File Type"
            /\ UNCHANGED <<objectUrls, probes>>
       ELSE /\ Len(objectUrls) < MaxUrls
            /\ objectUrls' = Append(objectUrls, NewUrl("upload"))
            /\ probes' = probes \cup {[file |-> file, url |-> Len(objectUrls) + 1]}
            /\ UNCHANGED toast
  /\ UNCHANGED <<transcription, isTranscribing, uploadedFile, audioUrl, jobs>>
  /\ UNCHANGED <<textVars, liveVars, strategy, hostVars, notesVars>>

\* audio.onloadedmetadata (345-366)
ProbeLoaded(probe) ==
  /\ strategy = "batch"
  /\ probe \in probes
  /\ probe.file.duration # Undecodable
  /\ probes' = probes \ {probe}
  /\ IF TooLong(probe.file.duration)
       THEN /\ toast' = "File Too Long"
            /\ objectUrls' = Revoke(objectUrls, probe.url)
            /\ UNCHANGED <<uploadedFile, audioUrl>>
       ELSE /\ uploadedFile' = probe.file
            /\ audioUrl' = probe.url
            /\ toast' = "File Uploaded"
            /\ UNCHANGED objectUrls
  /\ UNCHANGED <<transcription, isTranscribing, jobs>>
  /\ UNCHANGED <<textVars, liveVars, strategy, hostVars, notesVars>>

\* An onerror that also drops the file held, to compare ProbeError with.
ProbeErrorDropsFile(probe) ==
  /\ strategy = "batch"
  /\ probe \in probes
  /\ probe.file.duration = Undecodable
  /\ probes' = probes \ {probe}
  /\ toast' = "Invalid Audio File"
  /\ objectUrls' = Revoke(objectUrls, probe.url)
  /\ uploadedFile' = NoFile
  /\ audioUrl' = 0
  /\ UNCHANGED <<transcription, isTranscribing, jobs>>
  /\ UNCHANGED <<textVars, liveVars, strategy, hostVars, notesVars>>

\* audio.onerror (368-375)
ProbeError(probe) ==
  /\ strategy = "batch"
  /\ probe \in probes
  /\ probe.file.duration = Undecodable
  /\ probes' = probes \ {probe}
  /\ toast' = "Invalid Audio File"
  /\ objectUrls' = Revoke(objectUrls, probe.url)
  /\ UNCHANGED <<transcription, isTranscribing, uploadedFile, audioUrl, jobs>>
  /\ UNCHANGED <<textVars, liveVars, strategy, hostVars, notesVars>>

\* transcribeAudio without its test of uploadedFile, to compare
\* TranscribeAudio with.
TranscribeAudioUnguarded ==
  /\ strategy = "batch"
  /\ Len(jobs) < MaxJobs
  /\ isTranscribing' = TRUE
  /\ toast' = "Transcription Started"
  /\ jobs' = Append(jobs, [file |-> uploadedFile, stage |-> "loading",
                           url |-> 0])
  /\ UNCHANGED <<transcription, uploadedFile, audioUrl, objectUrls, probes>>
  /\ UNCHANGED <<textVars, liveVars, strategy, hostVars, notesVars>>

\* transcribeAudio (380-399), up to the await of pipeline(...).
TranscribeAudio ==
  /\ strategy = "batch"
  /\ IF uploadedFile = NoFile
       THEN /\ toast' = "No File Selected"
            /\ UNCHANGED <<isTranscribing, jobs>>
       ELSE /\ Len(jobs) < MaxJobs
            /\ isTranscribing' = TRUE
            /\ toast' = "Transcription Started"
            /\ jobs' = Append(jobs, [file |-> uploadedFile, stage |-> "loading",
                                     url |-> 0])
  /\ UNCHANGED <<transcription, uploadedFile, audioUrl, objectUrls, probes>>
  /\ UNCHANGED <<textVars, liveVars, strategy, hostVars, notesVars>>

\* The model is loaded (399-418): the engine is called on a new object URL.
PipelineLoaded(i) ==
  /\ strategy = "batch"
  /\ i \in 1..Len(jobs)
  /\ jobs[i].stage = "loading"
  /\ Len(objectUrls) < MaxUrls
  /\ objectUrls' = Append(objectUrls, NewUrl("engine"))
  /\ jobs' = [jobs EXCEPT ![i] = [@ EXCEPT !.stage = "running",
                                           !.url = Len(objectUrls) + 1]]
  /\ UNCHANGED <<transcription, isTranscribing, uploadedFile, audioUrl, probes,
                 toast>>
  /\ UNCHANGED <<textVars, liveVars, strategy, hostVars, notesVars>>

\* A catch that loads the model again, to compare TranscribeFailed with.
TranscribeFailedRetries(i) ==
  /\ strategy = "batch"
  /\ i \in 1..Len(jobs)
  /\ toast' = "Transcription Failed"
  /\ jobs' = [jobs EXCEPT ![i].stage = "loading"]
  /\ UNCHANGED <<transcription, isTranscribing, uploadedFile, audioUrl,
                 objectUrls, probes>>
  /\ UNCHANGED <<textVars, liveVars, strategy, hostVars, notesVars>>

\* catch (496-504), reached from the await of pipeline(...) or of the engine.
TranscribeFailed(i) ==
  /\ strategy = "batch"
  /\ i \in 1..Len(jobs)
  /\ isTranscribing' = FALSE
  /\ toast' = "Transcription Failed"
  /\ jobs' = RemoveAt(jobs, i)
  /\ UNCHANGED <<transcription, uploadedFile, audioUrl, objectUrls, probes>>
  /\ UNCHANGED <<textVars, liveVars, strategy, hostVars, notesVars>>

\* The engine returns (420-494).
EngineReturned(i, result) ==
  /\ strategy = "batch"
  /\ i \in 1..Len(jobs)
  /\ jobs[i].stage = "running"
  /\ transcription' = Transcribed(result)
  /\ NotifyHost(Transcribed(result))
  /\ isTranscribing' = FALSE
  /\ objectUrls' = Revoke(objectUrls, jobs[i].url)
  /\ toast' = "Transcription Complete"
  /\ jobs' = RemoveAt(jobs, i)
  /\ UNCHANGED <<uploadedFile, audioUrl, probes>>
  /\ UNCHANGED <<textVars, liveVars, strategy, notesVars>>

\* clearWorkspace that also takes the in-progress flag down, to compare
\* ClearWorkspace with.
ClearWorkspaceResetsFlag ==
  /\ strategy = "batch"
  /\ transcription' = <<>>
  /\ uploadedFile' = NoFile
  /\ IF audioUrl # 0
       THEN /\ objectUrls' = Revoke(objectUrls, audioUrl)
            /\ audioUrl' = 0
       ELSE UNCHANGED <<objectUrls, audioUrl>>
  /\ NotifyHost(<<>>)
  /\ toast' = "Workspace Cleared"
  /\ isTranscribing' = FALSE
  /\ UNCHANGED <<probes, jobs>>
  /\ UNCHANGED <<textVars, liveVars, strategy, notesVars>>

\* clearWorkspace without its onTranscriptionComplete(''), to compare
\* ClearWorkspace with.
ClearWorkspaceSilently ==
  /\ strategy = "batch"
  /\ transcription' = <<>>
  /\ uploadedFile' = NoFile
  /\ IF audioUrl # 0
       THEN /\ objectUrls' = Revoke(objectUrls, audioUrl)
            /\ audioUrl' = 0
       ELSE UNCHANGED <<objectUrls, audioUrl>>
  /\ toast' = "Workspace Cleared"
  /\ UNCHANGED <<isTranscribing, probes, jobs>>
  /\ UNCHANGED <<textVars, liveVars, strategy, hostVars, notesVars>>

\* clearWorkspace (523-542)
ClearWorkspace ==
  /\ strategy = "batch"
  /\ transcription' = <<>>
  /\ uploadedFile' = NoFile
  /\ IF audioUrl # 0
       THEN /\ objectUrls' = Revoke(objectUrls, audioUrl)
            /\ audioUrl' = 0
       ELSE UNCHANGED <<objectUrls, audioUrl>>
  /\ NotifyHost(<<>>)
  /\ toast' = "Workspace Cleared"
  /\ UNCHANGED <<isTranscribing, probes, jobs>>
  /\ UNCHANGED <<textVars, liveVars, strategy, notesVars>>

\* downloadTranscription (545-567): the transcript goes into a Blob behind a
\* new object URL, which is never revoked, and the click on the anchor
\* downloads it.
DownloadTranscription ==
  /\ strategy = "batch"
  /\ IF Len(Trim(transcription)) = 0
       THEN /\ toast' = "Nothing to Download"
            /\ UNCHANGED <<objectUrls, download>>
       ELSE /\ Cardinality(TranscriptUrls) < MaxDownloads
            /\ objectUrls' = Append(objectUrls, NewUrl("transcript"))
            /\ download' = transcription
            /\ toast' = "Download Started"
  /\ UNCHANGED <<transcription, isTranscribing, uploadedFile, audioUrl, probes,
                 jobs>>
  /\ UNCHANGED <<notes, isGenerating, generations, copied, copyTimers,
                 clipboardWrites, clipboard>>
  /\ UNCHANGED <<textVars, liveVars, strategy, hostVars>>

(***************************************************************************)
(* Live strategy (part_000): start, recognition events, stop, clear        *)
(***************************************************************************)

\* The isRecording that recognition.onend reads. onend is created inside
\* startRecording, a useCallback with dependencies [toast]: it closes over the
\* isRecording of the render that created startRecording. That render is the
\* first one (useState(false)), and any later one in which Start can be
\* clicked also has isRecording = false.
CapturedIsRecording == FALSE

MaxSessions == 1
MaxPending == 1
MaxEvents == 2

Str_hi == <<"h", "i">>

\* event.results[i][0].transcript of the results an engine reports.
Segments == {Str_hi, <<>>}

SpeechResults == [transcript : Segments, isFinal : BOOLEAN]

\* What one result event changes: the results from event.resultIndex on: one
\* result, final or interim, or a final result followed by an interim one.
Changes ==
  {<<r>> : r \in SpeechResults} \cup
  {<<f, r>> : f \in {x \in SpeechResults : x.isFinal},
              r \in {x \in SpeechResults : ~x.isFinal}}

RecognitionErrors ==
  {"no-speech", "audio-capture", "not-allowed", "service-not-allowed",
   "network", "aborted"}

\* finalTranscript and interimTranscript of onresult (47-59), for the results
\* from index i (1-based) on.
RECURSIVE FinalTranscript(_, _)
FinalTranscript(results, i) ==
  IF i > Len(results) THEN <<>>
  ELSE (IF results[i].isFinal THEN results[i].transcript \o <<" ">> ELSE <<>>)
       \o FinalTranscript(results, i + 1)

RECURSIVE InterimTranscript(_, _)
InterimTranscript(results, i) ==
  IF i > Len(results) THEN <<>>
  ELSE (IF results[i].isFinal THEN <<>> ELSE results[i].transcript)
       \o InterimTranscript(results, i + 1)

\* The final results a session keeps after an event: interim ones are revised
\* by the next event.
RECURSIVE FinalsOf(_)
FinalsOf(results) ==
  IF results = <<>> THEN <<>>
  ELSE (IF Head(results).isFinal THEN <<Head(results)>> ELSE <<>>)
       \o FinalsOf(Tail(results))

\* startRecording (30-33): the call is suspended at getUserMedia.
StartRecording ==
  /\ strategy = "live"
  /\ pendingStarts < MaxPending
  /\ pendingStarts' = pendingStarts + 1
  /\ UNCHANGED <<isRecording, interimTranscription, recognitionRef, sessions,
                 eventCount, resultCalls>>
  /\ UNCHANGED <<textVars, batchVars, strategy, hostVars, notesVars>>

\* startRecording (35-130): the microphone is granted and the API exists;
\* limit bounds the sessions created.
MicrophoneGrantedWithin(limit) ==
  /\ strategy = "live"
  /\ pendingStarts > 0
  /\ Len(sessions) < limit
  /\ pendingStarts' = pendingStarts - 1
  /\ sessions' = Append(sessions, [phase |-> "starting", results |-> <<>>])
  /\ recognitionRef' = Len(sessions) + 1
  /\ isRecording' = TRUE
  /\ toast' = "Recording Started"
  /\ UNCHANGED <<interimTranscription, eventCount, resultCalls>>
  /\ UNCHANGED <<transcription, isTranscribing, uploadedFile, audioUrl,
                 objectUrls, probes, jobs>>
  /\ UNCHANGED <<textVars, strategy, hostVars, notesVars>>

MicrophoneGranted == MicrophoneGrantedWithin(MaxSessions)

\* startRecording, catch (132-143): getUserMedia rejects, or the browser has
\* no SpeechRecognition.
StartFailed ==
  /\ strategy = "live"
  /\ pendingStarts > 0
  /\ pendingStarts' = pendingStarts - 1
  /\ toast' = "Microphone Access Required"
  /\ UNCHANGED <<isRecording, interimTranscription, recognitionRef, sessions,
                 eventCount, resultCalls>>
  /\ UNCHANGED <<transcription, isTranscribing, uploadedFile, audioUrl,
                 objectUrls, probes, jobs>>
  /\ UNCHANGED <<textVars, strategy, hostVars, notesVars>>

\* recognition.onstart (110-113)
OnStart(k) ==
  /\ strategy = "live"
  /\ k \in 1..Len(sessions)
  /\ sessions[k].phase = "starting"
  /\ sessions' = [sessions EXCEPT ![k].phase = "running"]
  /\ isTranscribing' = TRUE
  /\ UNCHANGED <<isRecording, interimTranscription, recognitionRef,
                 pendingStarts, eventCount, resultCalls>>
  /\ UNCHANGED <<transcription, uploadedFile, audioUrl, objectUrls, probes,
                 jobs, toast>>
  /\ UNCHANGED <<textVars, strategy, hostVars, notesVars>>

\* The event a session delivers when its results from resultIndex on become
\* `changed`: resultIndex is 0-based.
ResultEvent(session, changed) ==
  [resultIndex |-> Len(session.results), results |-> session.results \o changed]

\* onresult without its if (finalTranscript), to compare OnResultHandler with.
OnResultNotifyAlways(event) ==
  LET finalTranscript == FinalTranscript(event.results, event.resultIndex + 1)
  IN /\ transcription' = transcription \o finalTranscript
     /\ NotifyHost(transcription \o finalTranscript)
     /\ resultCalls' = resultCalls + 1
     /\ interimTranscription' =
          InterimTranscript(event.results, event.resultIndex + 1)

\* onresult with the final text in place of the transcript, not after it, to
\* compare OnResultHandler with.
OnResultReplaces(event) ==
  LET finalTranscript == FinalTranscript(event.results, event.resultIndex + 1)
  IN /\ IF Len(finalTranscript) > 0
          THEN /\ transcription' = finalTranscript
               /\ NotifyHost(finalTranscript)
               /\ resultCalls' = resultCalls + 1
          ELSE UNCHANGED <<transcription, hostVars, resultCalls>>
     /\ interimTranscription' =
          InterimTranscript(event.results, event.resultIndex + 1)

\* recognition.onresult (45-75)
OnResultHandler(event) ==
  LET finalTranscript == FinalTranscript(event.results, event.resultIndex + 1)
  IN /\ IF Len(finalTranscript) > 0
          THEN /\ transcription' = transcription \o finalTranscript
               /\ NotifyHost(transcription \o finalTranscript)
               /\ resultCalls' = resultCalls + 1
          ELSE UNCHANGED <<transcription, hostVars, resultCalls>>
     /\ interimTranscription' =
          InterimTranscript(event.results, event.resultIndex + 1)

OnResult(k, changed) ==
  /\ strategy = "live"
  /\ k \in 1..Len(sessions)
  /\ sessions[k].phase \in {"running", "stopping"}
  /\ eventCount < MaxEvents
  /\ eventCount' = eventCount + 1
  /\ LET event == ResultEvent(sessions[k], changed)
     IN /\ OnResultHandler(event)
        /\ sessions' = [sessions EXCEPT ![k].results = FinalsOf(event.results)]
  /\ UNCHANGED <<isRecording, recognitionRef, pendingStarts>>
  /\ UNCHANGED <<isTranscribing, uploadedFile, audioUrl, objectUrls, probes,
                 jobs, toast>>
  /\ UNCHANGED <<textVars, strategy, notesVars>>

\* recognition.onerror (77-95); the session then ends.
OnError(k, error) ==
  /\ strategy = "live"
  /\ k \in 1..Len(sessions)
  /\ sessions[k].phase \in {"starting", "running", "stopping"}
  /\ IF error \in {"not-allowed", "service-not-allowed"}
       THEN /\ toast' = "Microphone Access Required"
            /\ isRecording' = FALSE
       ELSE IF error = "network"
         THEN /\ toast' = "Network Error"
              /\ UNCHANGED isRecording
         ELSE UNCHANGED <<toast, isRecording>>
  /\ sessions' = [sessions EXCEPT ![k].phase = "failed"]
  /\ UNCHANGED <<interimTranscription, recognitionRef, pendingStarts,
                 eventCount, resultCalls>>
  /\ UNCHANGED <<transcription, isTranscribing, uploadedFile, audioUrl,
                 objectUrls, probes, jobs>>
  /\ UNCHANGED <<textVars, strategy, hostVars, notesVars>>

\* recognition.onend (97-108). restarts: whether recognition.start() succeeds
\* when it is called; a throw is caught.
OnEnd(k, restarts) ==
  /\ strategy = "live"
  /\ k \in 1..Len(sessions)
  /\ sessions[k].phase \in {"starting", "running", "stopping", "failed"}
  /\ IF CapturedIsRecording /\ recognitionRef # 0 /\ restarts
       THEN sessions' = [sessions EXCEPT ![k].phase = "starting",
                                         ![k].results = <<>>]
       ELSE sessions' = [sessions EXCEPT ![k].phase = "ended",
                                         ![k].results = <<>>]
  /\ UNCHANGED <<isRecording, interimTranscription, recognitionRef,
                 pendingStarts, eventCount, resultCalls>>
  /\ UNCHANGED <<batchVars, textVars, strategy, hostVars, notesVars>>

\* stopRecording without a notice when nothing was transcribed, to compare
\* StopRecording with.
StopRecordingQuietly ==
  /\ strategy = "live"
  /\ isRecording' = FALSE
  /\ isTranscribing' = FALSE
  /\ IF recognitionRef # 0
       THEN /\ sessions' =
                 [sessions EXCEPT ![recognitionRef].phase =
                    IF @ \in {"starting", "running"} THEN "stopping" ELSE @]
            /\ recognitionRef' = 0
       ELSE UNCHANGED <<sessions, recognitionRef>>
  /\ interimTranscription' = <<>>
  /\ IF Len(Trim(transcription)) > 0
       THEN /\ NotifyHost(transcription)
            /\ toast' = "Recording Stopped: transcription complete"
       ELSE UNCHANGED <<toast, hostVars>>
  /\ UNCHANGED <<pendingStarts, eventCount, resultCalls>>
  /\ UNCHANGED <<transcription, uploadedFile, audioUrl, objectUrls, probes,
                 jobs>>
  /\ UNCHANGED <<textVars, strategy, notesVars>>

\* stopRecording (146-174)
StopRecording ==
  /\ strategy = "live"
  /\ isRecording' = FALSE
  /\ isTranscribing' = FALSE
  /\ IF recognitionRef # 0
       THEN /\ sessions' =
                 [sessions EXCEPT ![recognitionRef].phase =
                    IF @ \in {"starting", "running"} THEN "stopping" ELSE @]
            /\ recognitionRef' = 0
       ELSE UNCHANGED <<sessions, recognitionRef>>
  /\ interimTranscription' = <<>>
  /\ IF Len(Trim(transcription)) > 0
       THEN /\ NotifyHost(transcription)
            /\ toast' = "Recording Stopped: transcription complete"
       ELSE /\ toast' = "Recording Stopped: no speech was detected"
            /\ UNCHANGED hostVars
  /\ UNCHANGED <<pendingStarts, eventCount, resultCalls>>
  /\ UNCHANGED <<transcription, uploadedFile, audioUrl, objectUrls, probes,
                 jobs>>
  /\ UNCHANGED <<textVars, strategy, notesVars>>

\* clearTranscription (176-184)
ClearTranscription ==
  /\ strategy = "live"
  /\ transcription' = <<>>
  /\ interimTranscription' = <<>>
  /\ NotifyHost(<<>>)
  /\ toast' = "Workspace Cleared"
  /\ UNCHANGED <<isRecording, recognitionRef, sessions, pendingStarts,
                 eventCount, resultCalls>>
  /\ UNCHANGED <<isTranscribing, uploadedFile, audioUrl, objectUrls, probes,
                 jobs>>
  /\ UNCHANGED <<textVars, strategy, notesVars>>

\* downloadTranscription of the live recorder (186-208)
DownloadLiveTranscription ==
  /\ strategy = "live"
  /\ IF Len(Trim(transcription)) = 0
       THEN /\ toast' = "Nothing to Download"
            /\ UNCHANGED <<objectUrls, download>>
       ELSE /\ Cardinality(TranscriptUrls) < MaxDownloads
            /\ objectUrls' = Append(objectUrls, NewUrl("transcript"))
            /\ download' = transcription
            /\ toast' = "Download Started"
  /\ UNCHANGED <<transcription, isTranscribing, uploadedFile, audioUrl, probes,
                 jobs>>
  /\ UNCHANGED <<notes, isGenerating, generations, copied, copyTimers,
                 clipboardWrites, clipboard>>
  /\ UNCHANGED <<textVars, liveVars, strategy, hostVars>>

(***************************************************************************)
(* The page: one of the two recorder components, the host and the notes    *)
(* formatter beside the recorder                                           *)
(***************************************************************************)

TextIdle ==
  /\ engineResult = NoResult
  /\ inText = <<>>
  /\ outWords = <<>>
  /\ outText = <<>>
  /\ stage = "idle"

Init ==
  /\ BatchIdle
  /\ LiveIdle
  /\ strategy \in {"batch", "live"}
  /\ HostIdle
  /\ NotesIdle
  /\ TextIdle

\* The steps of the recorder the page mounts.
RecorderNext ==
  \/ \E file \in Files : HandleFileUpload(file)
  \/ \E probe \in probes : ProbeLoaded(probe)
  \/ \E probe \in probes : ProbeError(probe)
  \/ TranscribeAudio
  \/ \E i \in 1..Len(jobs) : PipelineLoaded(i)
  \/ \E i \in 1..Len(jobs) : TranscribeFailed(i)
  \/ \E i \in 1..Len(jobs), result \in EngineResults : EngineReturned(i, result)
  \/ ClearWorkspace
  \/ DownloadTranscription
  \/ StartRecording
  \/ MicrophoneGranted
  \/ StartFailed
  \/ \E k \in 1..Len(sessions) : OnStart(k)
  \/ \E k \in 1..Len(sessions), changed \in Changes : OnResult(k, changed)
  \/ \E k \in 1..Len(sessions), error \in RecognitionErrors : OnError(k, error)
  \/ \E k \in 1..Len(sessions), restarts \in BOOLEAN : OnEnd(k, restarts)
  \/ StopRecording
  \/ ClearTranscription
  \/ DownloadLiveTranscription

\* ---- the live recorder on its own, with room for a session started while
\*      the end of the one before is still to come

MaxLiveSessions == 2

LiveInit ==
  /\ BatchIdle
  /\ LiveIdle
  /\ strategy = "live"
  /\ HostIdle
  /\ NotesIdle
  /\ TextIdle

LiveNext ==
  \/ StartRecording
  \/ MicrophoneGrantedWithin(MaxLiveSessions)
  \/ StartFailed
  \/ \E k \in 1..Len(sessions) : OnStart(k)
  \/ \E k \in 1..Len(sessions), changed \in Changes : OnResult(k, changed)
  \/ \E k \in 1..Len(sessions), error \in RecognitionErrors : OnError(k, error)
  \/ \E k \in 1..Len(sessions), restarts \in BOOLEAN : OnEnd(k, restarts)
  \/ StopRecording
  \/ ClearTranscription
  \/ DownloadLiveTranscription

SpecLive == LiveInit /\ [][LiveNext]_vars

\* ---- the batch recorder (VoiceRecorder.tsx), driven through its buttons

\* A Transcribe button that only needs a file, to compare TranscribeEnabled
\* with.
TranscribeEnabledWithFile == uploadedFile # NoFile

\* disabled={!uploadedFile || isTranscribing}, negated
TranscribeEnabled == uploadedFile # NoFile /\ ~isTranscribing

\* disabled={!uploadedFile && !transcription.trim()}, negated
ClearEnabled == uploadedFile # NoFile \/ Len(Trim(transcription)) > 0

\* onClick={transcribeAudio}
ClickTranscribe == TranscribeEnabled /\ TranscribeAudio

\* onClick={clearWorkspace}
ClickClear == ClearEnabled /\ ClearWorkspace

\* disabled={!transcription.trim()}, negated
DownloadEnabled == Len(Trim(transcription)) > 0

\* onClick={downloadTranscription}
ClickDownload == DownloadEnabled /\ DownloadTranscription

BatchInit ==
  /\ BatchIdle
  /\ LiveIdle
  /\ strategy = "batch"
  /\ HostIdle
  /\ NotesIdle
  /\ TextIdle

BatchNext ==
  \/ \E file \in Files : HandleFileUpload(file)
  \/ \E probe \in probes : ProbeLoaded(probe)
  \/ \E probe \in probes : ProbeError(probe)
  \/ ClickTranscribe
  \/ \E i \in 1..Len(jobs) : PipelineLoaded(i)
  \/ \E i \in 1..Len(jobs) : TranscribeFailed(i)
  \/ \E i \in 1..Len(jobs), result \in EngineResults : EngineReturned(i, result)
  \/ ClickClear
  \/ ClickDownload

SpecBatch == BatchInit /\ [][BatchNext]_vars

\* ---- each recorder on its own, its handlers called in any order

BatchCallsNext ==
  \/ \E file \in Files : HandleFileUpload(file)
  \/ \E probe \in probes : ProbeLoaded(probe)
  \/ \E probe \in probes : ProbeError(probe)
  \/ TranscribeAudio
  \/ \E i \in 1..Len(jobs) : PipelineLoaded(i)
  \/ \E i \in 1..Len(jobs) : TranscribeFailed(i)
  \/ \E i \in 1..Len(jobs), result \in EngineResults : EngineReturned(i, result)
  \/ ClearWorkspace
  \/ DownloadTranscription

SpecBatchCalls == BatchInit /\ [][BatchCallsNext]_vars

LiveCallsNext ==
  \/ StartRecording
  \/ MicrophoneGranted
  \/ StartFailed
  \/ \E k \in 1..Len(sessions) : OnStart(k)
  \/ \E k \in 1..Len(sessions), changed \in Changes : OnResult(k, changed)
  \/ \E k \in 1..Len(sessions), error \in RecognitionErrors : OnError(k, error)
  \/ \E k \in 1..Len(sessions), restarts \in BOOLEAN : OnEnd(k, restarts)
  \/ StopRecording
  \/ ClearTranscription
  \/ DownloadLiveTranscription

SpecLiveCalls == LiveInit /\ [][LiveCallsNext]_vars

\* ---- the buttons of the live recorder

\* {!isRecording ? <Button onClick={startRecording}> (part_000, 223-231)
ClickStart == ~isRecording /\ StartRecording

\* ... : <Button onClick={stopRecording}>} (232-241)
ClickStop == isRecording /\ StopRecording

\* onClick={clearTranscription}, disabled={!transcription.trim()} (244-252)
ClickClearTranscription == Len(Trim(transcription)) > 0 /\ ClearTranscription

\* onClick={downloadTranscription}, disabled={!transcription.trim()} (254-262)
ClickDownloadLive == Len(Trim(transcription)) > 0 /\ DownloadLiveTranscription

(***************************************************************************)
(* Notes formatter and host page                                           *)
(***************************************************************************)

MaxGenerations == 2

MinSentenceLength == 10
MaxKeyPoints == 8
MinTermLength == 4
MaxKeyTerms == 6

Terminators == {".", "!", "?"}

IsTerminator(c) == c \in Terminators

\* text.split(/[.!?]+/): the pieces between runs of terminators, an empty
\* piece before a leading run and after a trailing one.
SplitSentences(text) ==
  LET starts == {i \in 1..Len(text) :
                   ~IsTerminator(text[i])
                     /\ (i = 1 \/ IsTerminator(text[i - 1]))}
      ends == {i \in 1..Len(text) :
                 ~IsTerminator(text[i])
                   /\ (i = Len(text) \/ IsTerminator(text[i + 1]))}
      nth(set, k) == CHOOSE i \in set : Cardinality({j \in set : j <= i}) = k
      runs == [k \in 1..Cardinality(starts) |->
                 SubSeq(text, nth(starts, k), nth(ends, k))]
  IN IF Len(text) = 0 THEN << <<>> >>
     ELSE (IF IsTerminator(text[1]) THEN << <<>> >> ELSE <<>>)
            \o AsSeq(runs)
            \o (IF IsTerminator(text[Len(text)]) THEN << <<>> >> ELSE <<>>)

\* new Set([...]), line 58
commonWords ==
  {
   <<"t", "h", "e">>,
   <<"a", "n", "d">>,
   <<"o", "r">>,
   <<"b", "u", "t">>,
   <<"i", "n">>,
   <<"o", "n">>,
   <<"a", "t">>,
   <<"t", "o">>,
   <<"f", "o", "r">>,
   <<"o", "f">>,
   <<"w", "i", "t", "h">>,
   <<"b", "y">>,
   <<"i", "s">>,
   <<"a", "r", "e">>,
   <<"w", "a", "s">>,
   <<"w", "e", "r", "e">>,
   <<"b", "e">>,
   <<"b", "e", "e", "n">>,
   <<"b", "e", "i", "n", "g">>,
   <<"h", "a", "v", "e">>,
   <<"h", "a", "s">>,
   <<"h", "a", "d">>,
   <<"d", "o">>,
   <<"d", "o", "e", "s">>,
   <<"d", "i", "d">>,
   <<"w", "i", "l", "l">>,
   <<"w", "o", "u", "l", "d">>,
   <<"c", "o", "u", "l", "d">>,
   <<"s", "h", "o", "u", "l", "d">>,
   <<"m", "a", "y">>,
   <<"m", "i", "g", "h", "t">>,
   <<"m", "u", "s", "t">>,
   <<"c", "a", "n">>,
   <<"t", "h", "i", "s">>,
   <<"t", "h", "a", "t">>,
   <<"t", "h", "e", "s", "e">>,
   <<"t", "h", "o", "s", "e">>,
   <<"a">>,
   <<"a", "n">>
  }

\* A slice that keeps everything, to compare Slice with.
SliceAll(arr, n) == arr

\* arr.slice(0, n)
Slice(arr, n) == SubSeq(arr, 1, IF n < Len(arr) THEN n ELSE Len(arr))

\* arr.filter((word, index, arr) => arr.indexOf(word) === index)
FirstOccurrences(arr) ==
  LET keep == {i \in 1..Len(arr) : \A j \in 1..(i - 1) : arr[j] # arr[i]}
      nth(k) == CHOOSE i \in keep : Cardinality({j \in keep : j <= i}) = k
  IN AsSeq([k \in 1..Cardinality(keep) |-> arr[nth(k)]])

\* Lines 67-74.
Abbreviations ==
  <<
   [term |->
      <<"A", "I">>,
    meaning |->
      <<"A", "r", "t", "i", "f", "i", "c", "i", "a", "l", " ", "I", "n",
        "t", "e", "l", "l", "i", "g", "e", "n", "c", "e">>],
   [term |->
      <<"M", "L">>,
    meaning |->
      <<"M", "a", "c", "h", "i", "n", "e", " ", "L", "e", "a", "r", "n",
        "i", "n", "g">>],
   [term |->
      <<"A", "P", "I">>,
    meaning |->
      <<"A", "p", "p", "l", "i", "c", "a", "t", "i", "o", "n", " ", "P",
        "r", "o", "g", "r", "a", "m", "m", "i", "n", "g", " ", "I", "n",
        "t", "e", "r", "f", "a", "c", "e">>],
   [term |->
      <<"U", "I", "/", "U", "X">>,
    meaning |->
      <<"U", "s", "e", "r", " ", "I", "n", "t", "e", "r", "f", "a", "c",
        "e", "/", "U", "s", "e", "r", " ", "E", "x", "p", "e", "r", "i",
        "e", "n", "c", "e">>],
   [term |->
      <<"S", "a", "a", "S">>,
    meaning |->
      <<"S", "o", "f", "t", "w", "a", "r", "e", " ", "a", "s", " ", "a",
        " ", "S", "e", "r", "v", "i", "c", "e">>],
   [term |->
      <<"C", "R", "M">>,
    meaning |->
      <<"C", "u", "s", "t", "o", "m", "e", "r", " ", "R", "e", "l", "a",
        "t", "i", "o", "n", "s", "h", "i", "p", " ", "M", "a", "n", "a",
        "g", "e", "m", "e", "n", "t">>]
  >>

\* A length test that already passes at ten, to compare IsLongSentence with.
IsLongSentenceInclusive(s) == Len(Trim(s)) >= MinSentenceLength

\* s.trim().length > 10
IsLongSentence(s) == Len(Trim(s)) > MinSentenceLength

\* A term test that knows no stop-words, to compare IsKeyTerm with.
IsKeyTermAnyWord(word) == Len(word) > MinTermLength

\* word.length > 4 && !commonWords.has(word)
IsKeyTerm(word) == Len(word) > MinTermLength /\ word \notin commonWords

\* generateMockNotes (51-82). The empty pieces that split(/\s+/) yields at a
\* leading or trailing blank fail the length test of line 61 as every word
\* of four characters or fewer does.
generateMockNotes(text, date) ==
  LET sentences == SelectSeq(SplitSentences(text), IsLongSentence)
      keyPoints == Slice(sentences, MaxKeyPoints)
      words == SplitWords(toLowerCase(text))
      uniqueWords ==
        Slice(FirstOccurrences(SelectSeq(words, IsKeyTerm)), MaxKeyTerms)
      trimmed == AsSeq([i \in 1..Len(keyPoints) |-> Trim(keyPoints[i])])
      processedKeyPoints == SelectSeq(trimmed, LAMBDA point : Len(point) > 0)
  IN [keyPoints |-> processedKeyPoints,
      abbreviations |-> Abbreviations,
      uniqueWords |-> uniqueWords,
      generatedDate |-> date]

Text_blank ==
  <<" ", " ", "\n">>

Text_plants ==
  <<"P", "l", "a", "n", "t", "s", " ", "m", "a", "k", "e", " ", "s", "u",
    "g", "a", "r", ".", " ", "G", "o", "!">>

Text_cells ==
  <<"C", "e", "l", "l", "s", " ", "g", "r", "o", "w", ".", " ", "T", "h",
    "o", "s", "e", " ", "c", "e", "l", "l", "s", " ", "w", "o", "u", "l",
    "d", " ", "d", "i", "v", "i", "d", "e", " ", "d", "a", "i", "l", "y",
    "?">>

\* Three sentences of more than ten characters.
Text_three ==
  <<"P", "l", "a", "n", "t", "s", " ", "m", "a", "k", "e", " ", "s", "u",
    "g", "a", "r", ".", " ", "R", "o", "o", "t", "s", " ", "t", "a", "k",
    "e", " ", "u", "p", " ", "w", "a", "t", "e", "r", "!", " ", "L", "e",
    "a", "v", "e", "s", " ", "c", "a", "t", "c", "h", " ", "s", "u", "n",
    "l", "i", "g", "h", "t", "?">>

\* Nine sentences of more than ten characters, and a short one among them.
Text_nine ==
  <<"A", "n", "t", "s", " ", "d", "i", "g", " ", "h", "o", "l", "e", "s",
    ".", " ", "B", "e", "e", "s", " ", "m", "a", "k", "e", " ", "h", "o",
    "n", "e", "y", ".", " ", "N", "o", ".", " ", "C", "a", "t", "s", " ",
    "c", "h", "a", "s", "e", " ", "m", "i", "c", "e", ".", " ", "D", "o",
    "g", "s", " ", "b", "u", "r", "y", " ", "b", "o", "n", "e", "s", ".",
    " ", "E", "e", "l", "s", " ", "s", "w", "i", "m", " ", "r", "i", "v",
    "e", "r", "s", ".", " ", "F", "r", "o", "g", "s", " ", "e", "a", "t",
    " ", "f", "l", "i", "e", "s", ".", " ", "G", "o", "a", "t", "s", " ",
    "c", "l", "i", "m", "b", " ", "h", "i", "l", "l", "s", ".", " ", "H",
    "e", "n", "s", " ", "l", "a", "y", " ", "b", "r", "o", "w", "n", " ",
    "e", "g", "g", "s", ".", " ", "I", "b", "i", "s", " ", "w", "a", "d",
    "e", " ", "m", "a", "r", "s", "h", "e", "s", ".">>

\* Sentences of nine, ten and eleven characters.
Text_edge ==
  <<"R", "a", "i", "n", " ", "f", "e", "l", "l", ".", " ", "R", "a", "i",
    "n", " ", "f", "a", "l", "l", "s", ".", " ", "R", "a", "i", "n", " ",
    "f", "a", "l", "l", "e", "n", ".">>

\* The transcripts a recorder hands to the host.
NoteTexts ==
  {<<>>, Text_blank, Text_plants, Text_cells, Text_three, Text_nine,
   Text_edge}

\* new Date().toLocaleDateString()
Dates ==
  {<<"1", "0", "/", "2", "9", "/", "2", "0", "2", "6">>,
   <<"1", "0", "/", "3", "0", "/", "2", "0", "2", "6">>}

\* Index.handleTranscriptionComplete (part_004, 8-10), called by a recorder.
HandleTranscriptionComplete(text) ==
  /\ NotifyHost(text)
  /\ UNCHANGED <<textVars, batchVars, liveVars, strategy, notesVars>>

\* A content test without trim(), to compare HasContent with.
HasContentUntrimmed(text) == text # <<>>

\* transcription.trim(), as a condition (line 26)
HasContent(text) == Trim(text) # <<>>

\* generateNotes up to its await (25-38)
GenerateNotes ==
  /\ IF ~HasContent(hostTranscription)
       THEN /\ toast' = "No Content to Summarize"
            /\ UNCHANGED <<isGenerating, generations>>
       ELSE /\ Len(generations) < MaxGenerations
            /\ isGenerating' = TRUE
            /\ generations' = Append(generations, hostTranscription)
            /\ UNCHANGED toast
  /\ UNCHANGED <<transcription, isTranscribing, uploadedFile, audioUrl,
                 objectUrls, probes, jobs>>
  /\ UNCHANGED <<textVars, liveVars, strategy, hostVars, notes, exportVars>>

\* generateNotes after its await (40-48), on the transcript it captured
GenerationDone(date) ==
  /\ generations # <<>>
  /\ generations' = Tail(generations)
  /\ notes' = <<generateMockNotes(Head(generations), date)>>
  /\ isGenerating' = FALSE
  /\ toast' = "Notes Generated Successfully"
  /\ UNCHANGED <<transcription, isTranscribing, uploadedFile, audioUrl,
                 objectUrls, probes, jobs>>
  /\ UNCHANGED <<textVars, liveVars, strategy, hostVars, exportVars>>

NotesInit ==
  /\ TextIdle
  /\ BatchIdle
  /\ LiveIdle
  /\ strategy = "none"
  /\ HostIdle
  /\ NotesIdle

NotesNext ==
  \/ \E text \in NoteTexts : HandleTranscriptionComplete(text)
  \/ GenerateNotes
  \/ \E date \in Dates : GenerationDone(date)

SpecNotes == NotesInit /\ [][NotesNext]_vars

(***************************************************************************)
(* Notes formatter: export                                                 *)
(***************************************************************************)

MaxCopyTimers == 2
MaxPendingWrites == 1

\* The character U+2022, as one element of a string.
BulletChar == "U+2022"

MarkdownTitle ==
  <<"#", " ", "S", "t", "u", "d", "y", " ", "N", "o", "t", "e", "s", "\n",
    "\n", "#", "#", " ", "K", "e", "y", " ", "P", "o", "i", "n", "t", "s",
    "\n", "\n">>

MarkdownGlossary ==
  <<"#", "#", " ", "A", "b", "b", "r", "e", "v", "i", "a", "t", "i", "o",
    "n", "s", " ", "&", " ", "K", "e", "y", "w", "o", "r", "d", "s", "\n",
    "\n">>

MarkdownTerms ==
  <<"#", "#", " ", "K", "e", "y", " ", "T", "e", "r", "m", "s", "\n", "\n">>

MarkdownRule ==
  <<"-", "-", "-", "\n", "\n", "*", "G", "e", "n", "e", "r", "a", "t", "e",
    "d", " ", "o", "n", " ">>

MarkdownEnd ==
  <<" ", "u", "s", "i", "n", "g", " ", "A", "I", " ", "N", "o", "t", "e",
    "s", " ", "G", "e", "n", "e", "r", "a", "t", "o", "r", "*">>

TextTitle ==
  <<"S", "T", "U", "D", "Y", " ", "N", "O", "T", "E", "S", "\n", "\n", "K",
    "E", "Y", " ", "P", "O", "I", "N", "T", "S", ":", "\n">>

TextGlossary ==
  <<"\n", "A", "B", "B", "R", "E", "V", "I", "A", "T", "I", "O", "N", "S",
    " ", "&", " ", "K", "E", "Y", "W", "O", "R", "D", "S", ":", "\n">>

TextTerms ==
  <<"\n", "K", "E", "Y", " ", "T", "E", "R", "M", "S", ":", "\n">>

TextFooter ==
  <<"\n", "G", "e", "n", "e", "r", "a", "t", "e", "d", " ", "o", "n", " ">>

\* markdownContent of downloadNotes (94-113)
markdownContent(n) ==
  MarkdownTitle
    \o Flatten([i \in 1..Len(n.keyPoints) |->
         <<BulletChar, " ">> \o n.keyPoints[i] \o <<"\n", "\n">>])
    \o MarkdownGlossary
    \o Flatten([i \in 1..Len(n.abbreviations) |->
         <<"*", "*">> \o n.abbreviations[i].term \o <<"*", "*", ":", " ">>
           \o n.abbreviations[i].meaning \o <<"\n", "\n">>])
    \o (IF Len(n.uniqueWords) > 0
          THEN MarkdownTerms
                 \o Flatten([i \in 1..Len(n.uniqueWords) |->
                      <<BulletChar, " ">> \o n.uniqueWords[i]
                        \o <<"\n", "\n">>])
          ELSE <<>>)
    \o MarkdownRule \o n.generatedDate \o MarkdownEnd

\* textContent with a key-terms section even for no key terms, to compare
\* textContent with.
textContentTermsAlways(n) ==
  TextTitle
    \o Flatten([i \in 1..Len(n.keyPoints) |->
         <<BulletChar, " ">> \o n.keyPoints[i] \o <<"\n">>])
    \o TextGlossary
    \o Flatten([i \in 1..Len(n.abbreviations) |->
         n.abbreviations[i].term \o <<":", " ">>
           \o n.abbreviations[i].meaning \o <<"\n">>])
    \o TextTerms
    \o Flatten([i \in 1..Len(n.uniqueWords) |->
         <<BulletChar, " ">> \o n.uniqueWords[i] \o <<"\n">>])
    \o TextFooter \o n.generatedDate

\* textContent of copyToClipboard (140-159)
textContent(n) ==
  TextTitle
    \o Flatten([i \in 1..Len(n.keyPoints) |->
         <<BulletChar, " ">> \o n.keyPoints[i] \o <<"\n">>])
    \o TextGlossary
    \o Flatten([i \in 1..Len(n.abbreviations) |->
         n.abbreviations[i].term \o <<":", " ">>
           \o n.abbreviations[i].meaning \o <<"\n">>])
    \o (IF Len(n.uniqueWords) > 0
          THEN TextTerms
                 \o Flatten([i \in 1..Len(n.uniqueWords) |->
                      <<BulletChar, " ">> \o n.uniqueWords[i] \o <<"\n">>])
          ELSE <<>>)
    \o TextFooter \o n.generatedDate

\* !notes || !notes.keyPoints.length
NothingToExport == notes = <<>> \/ Len(notes[1].keyPoints) = 0

\* downloadNotes (84-127)
DownloadNotes ==
  /\ IF NothingToExport
       THEN /\ toast' = "No Notes to Download"
            /\ UNCHANGED <<download, objectUrls>>
       ELSE /\ Len(objectUrls) < MaxUrls
            /\ download' = markdownContent(notes[1])
            /\ objectUrls' = Append(objectUrls, NewUrl("notes"))
            /\ toast' = "Download Started"
  /\ UNCHANGED <<transcription, isTranscribing, uploadedFile, audioUrl,
                 probes, jobs>>
  /\ UNCHANGED <<notes, isGenerating, generations, copied, copyTimers,
                 clipboardWrites, clipboard>>
  /\ UNCHANGED <<textVars, liveVars, strategy, hostVars>>

\* copyToClipboard (129-161), up to the await of clipboard.writeText
CopyToClipboard ==
  /\ IF NothingToExport
       THEN /\ toast' = "No Notes to Copy"
            /\ UNCHANGED clipboardWrites
       ELSE /\ Len(clipboardWrites) < MaxPendingWrites
            /\ clipboardWrites' = Append(clipboardWrites, textContent(notes[1]))
            /\ UNCHANGED toast
  /\ UNCHANGED <<transcription, isTranscribing, uploadedFile, audioUrl,
                 objectUrls, probes, jobs>>
  /\ UNCHANGED <<notes, isGenerating, generations, copied, copyTimers,
                 clipboard, download>>
  /\ UNCHANGED <<textVars, liveVars, strategy, hostVars>>

\* copyToClipboard after its await (162-168): writeText resolved
ClipboardWritten(i) ==
  /\ i \in 1..Len(clipboardWrites)
  /\ copyTimers < MaxCopyTimers
  /\ clipboardWrites' = RemoveAt(clipboardWrites, i)
  /\ clipboard' = clipboardWrites[i]
  /\ copied' = TRUE
  /\ copyTimers' = copyTimers + 1
  /\ toast' = "Copied to Clipboard"
  /\ UNCHANGED <<transcription, isTranscribing, uploadedFile, audioUrl,
                 objectUrls, probes, jobs>>
  /\ UNCHANGED <<notes, isGenerating, generations, download>>
  /\ UNCHANGED <<textVars, liveVars, strategy, hostVars>>

\* copyToClipboard, catch (169-175): writeText rejected
ClipboardRejected(i) ==
  /\ i \in 1..Len(clipboardWrites)
  /\ clipboardWrites' = RemoveAt(clipboardWrites, i)
  /\ toast' = "Copy Failed"
  /\ UNCHANGED <<transcription, isTranscribing, uploadedFile, audioUrl,
                 objectUrls, probes, jobs>>
  /\ UNCHANGED <<notes, isGenerating, generations, copied, copyTimers,
                 clipboard, download>>
  /\ UNCHANGED <<textVars, liveVars, strategy, hostVars>>

\* setTimeout(() => setCopied(false), 2000), line 163
CopiedTimeout ==
  /\ copyTimers > 0
  /\ copied' = FALSE
  /\ copyTimers' = copyTimers - 1
  /\ UNCHANGED <<notes, isGenerating, generations, clipboardWrites, clipboard,
                 download>>
  /\ UNCHANGED <<textVars, batchVars, liveVars, strategy, hostVars>>

\* Two sentences too short to be key points, both words key terms.
Text_hello ==
  <<"H", "e", "l", "l", "o", ".", " ", "W", "o", "r", "l", "d", ".">>

\* One sentence, no word of more than four characters.
Text_dog ==
  <<"A", " ", "b", "i", "g", " ", "r", "e", "d", " ", "d", "o", "g", " ",
    "s", "a", "t", " ", "o", "n", " ", "t", "h", "e", " ", "m", "a", "t",
    ".">>

\* The notes objects generateNotes can have stored.
NotesObjects ==
  {generateMockNotes(text, date) :
     text \in (NoteTexts \cup {Text_hello, Text_dog}) \ {<<>>, Text_blank},
     date \in Dates}

ExportInit ==
  /\ TextIdle
  /\ BatchIdle
  /\ LiveIdle
  /\ strategy = "none"
  /\ HostIdle
  /\ notes \in {<<>>} \cup {<<n>> : n \in NotesObjects}
  /\ isGenerating = FALSE
  /\ generations = <<>>
  /\ ExportIdle

ExportNext ==
  \/ DownloadNotes
  \/ CopyToClipboard
  \/ \E i \in 1..Len(clipboardWrites) : ClipboardWritten(i)
  \/ \E i \in 1..Len(clipboardWrites) : ClipboardRejected(i)
  \/ CopiedTimeout

SpecExport == ExportInit /\ [][ExportNext]_vars

\* ---- the page (part_004, 12-19): the recorder and, beside it, the notes
\*      formatter on the transcript the host holds

NotesGeneratorNext ==
  \/ GenerateNotes
  \/ \E date \in Dates : GenerationDone(date)
  \/ DownloadNotes
  \/ CopyToClipboard
  \/ \E i \in 1..Len(clipboardWrites) : ClipboardWritten(i)
  \/ \E i \in 1..Len(clipboardWrites) : ClipboardRejected(i)
  \/ CopiedTimeout

Next == RecorderNext \/ NotesGeneratorNext

Spec == Init /\ [][Next]_vars

\* ---- the page driven through the buttons of its two components, the
\*      events of the browser and the timers

\* onClick={generateNotes}, disabled={!transcription.trim() || isGenerating}
\* (NotesGenerator.tsx, 189-192)
ClickGenerate ==
  /\ HasContent(hostTranscription)
  /\ ~isGenerating
  /\ GenerateNotes

\* {notes && ... onClick={copyToClipboard} (217, 227-238)
ClickCopy == notes # <<>> /\ CopyToClipboard

\* {notes && ... onClick={downloadNotes} (217, 240-247)
ClickDownloadNotes == notes # <<>> /\ DownloadNotes

\* The runs of the page are explored as far as the page has made, or has
\* pending, at most MaxPageWork things: object URLs, engine calls, sessions,
\* starts, result events, clipboard writes and timers of the copied mark.
MaxPageWork == 3

PageWork ==
  Len(objectUrls) + Len(jobs) + Len(sessions) + pendingStarts + eventCount
    + Len(clipboardWrites) + copyTimers

WithinPageWork(step) == step /\ PageWork' <= MaxPageWork

ButtonsNext ==
  \/ WithinPageWork(\E file \in Files : HandleFileUpload(file))
  \/ WithinPageWork(\E probe \in probes : ProbeLoaded(probe))
  \/ WithinPageWork(\E probe \in probes : ProbeError(probe))
  \/ WithinPageWork(ClickTranscribe)
  \/ WithinPageWork(\E i \in 1..Len(jobs) : PipelineLoaded(i))
  \/ WithinPageWork(\E i \in 1..Len(jobs) : TranscribeFailed(i))
  \/ WithinPageWork(\E i \in 1..Len(jobs), result \in EngineResults :
                      EngineReturned(i, result))
  \/ WithinPageWork(ClickClear)
  \/ WithinPageWork(ClickDownload)
  \/ WithinPageWork(ClickStart)
  \/ WithinPageWork(MicrophoneGranted)
  \/ WithinPageWork(StartFailed)
  \/ WithinPageWork(\E k \in 1..Len(sessions) : OnStart(k))
  \/ WithinPageWork(\E k \in 1..Len(sessions), changed \in Changes :
                      OnResult(k, changed))
  \/ WithinPageWork(\E k \in 1..Len(sessions), error \in RecognitionErrors :
                      OnError(k, error))
  \/ WithinPageWork(\E k \in 1..Len(sessions), restarts \in BOOLEAN :
                      OnEnd(k, restarts))
  \/ WithinPageWork(ClickStop)
  \/ WithinPageWork(ClickClearTranscription)
  \/ WithinPageWork(ClickDownloadLive)
  \/ WithinPageWork(ClickGenerate)
  \/ WithinPageWork(\E date \in Dates : GenerationDone(date))
  \/ WithinPageWork(ClickDownloadNotes)
  \/ WithinPageWork(ClickCopy)
  \/ WithinPageWork(\E i \in 1..Len(clipboardWrites) : ClipboardWritten(i))
  \/ WithinPageWork(\E i \in 1..Len(clipboardWrites) : ClipboardRejected(i))
  \/ WithinPageWork(CopiedTimeout)

SpecButtons == Init /\ [][ButtonsNext]_vars

(***************************************************************************)
(* Properties                                                              *)
(***************************************************************************)

EndsWith(s, suffix) ==
  /\ Len(s) >= Len(suffix)
  /\ SubSeq(s, Len(s) - Len(suffix) + 1, Len(s)) = suffix

\* The indices of the words that are not immediately followed by the same
\* word, compared ignoring case.
NotFollowedBySame(ws) ==
  {i \in 1..Len(ws) :
     ~(i < Len(ws) /\ toLowerCase(ws[i]) = toLowerCase(ws[i + 1]))}

\* C1: after the cleanup the cleaned list holds exactly the words that are not
\* immediately followed by the same word (ignoring case), in their original
\* order: the k-th word so kept is the k-th cleaned word. In particular
\* [w, w, x] gives [w, x] and a three-word list without adjacent repeats, such
\* as [w, x, w], is returned unchanged.
C1_AdjacentRepeatsDropped ==
  stage # "raw" =>
    LET ws == SplitWords(inText)
        K == NotFollowedBySame(ws)
    IN /\ Len(outWords) = Cardinality(K)
       /\ \A i \in K : outWords[Cardinality({j \in K : j <= i})] = ws[i]
       /\ (Len(ws) = 3 /\ ws[1] = ws[2] /\ toLowerCase(ws[2]) # toLowerCase(ws[3]))
            => outWords = <<ws[2], ws[3]>>
       /\ (Len(ws) = 3 /\ ws[1] = ws[3] /\ toLowerCase(ws[1]) # toLowerCase(ws[2]))
            => outWords = ws

C1_Witness ==
  /\ stage = "cleaned"
  /\ SplitWords(inText) = << <<"a">>, <<"a">>, <<"b">> >>
  /\ outWords = << <<"a">>, <<"b">> >>

\* C2: when the cleaned list has more than 50,000 words the delivered text is
\* the first 50,000 cleaned words joined by blanks, followed by the truncation
\* marker; when it has 50,000 words or fewer the delivered text is all the
\* cleaned words joined by blanks and does not end with the marker.
C2_TruncatedAtWordLimit ==
  stage = "done" =>
    IF Len(outWords) > WordLimit
      THEN outText = Join(SubSeq(outWords, 1, WordLimit)) \o TruncationMarker
      ELSE /\ ~EndsWith(outText, TruncationMarker)
           /\ Len(outWords) > 0 => outText = Join(outWords)

C2_Witness ==
  /\ stage = "done"
  /\ Len(outWords) = WordLimit + 1
  /\ Len(outText) = 2 * WordLimit - 1 + Len(TruncationMarker)
  /\ EndsWith(outText, TruncationMarker)

\* C3: an upload whose media type is not one of the four allowed types shows
\* the "Invalid File Type" notice and changes nothing else: no object URL is
\* created, no duration probe starts, no transcription job exists that did not
\* before, and the uploaded file and its URL stay as they were. No file of
\* such a type is ever probed or recorded as the uploaded file.
C3_WrongTypeRejected ==
  /\ [](/\ uploadedFile # NoFile => uploadedFile.type \in AllowedTypes
        /\ \A probe \in probes : probe.file.type \in AllowedTypes)
  /\ [][\A file \in Files :
          (file.type \notin AllowedTypes /\ HandleFileUpload(file)) =>
            /\ toast' = "Invalid File Type"
            /\ UNCHANGED <<objectUrls, probes, jobs, uploadedFile, audioUrl,
                           transcription, isTranscribing>>]_vars

C3_Witness ==
  /\ toast = "Invalid File Type"
  /\ uploadedFile # NoFile
  /\ Len(objectUrls) = 1
  /\ probes = {}
  /\ jobs = <<>>

\* C4: when the duration probe of an upload completes, a duration above 40
\* minutes shows the "File Too Long" notice, revokes the probe's object URL
\* and leaves the uploaded file and its URL as they were; a duration of 40
\* minutes or less records the file and the probe's URL.
C4_TooLongRejected ==
  [][\A probe \in probes :
       ProbeLoaded(probe) =>
         IF probe.file.duration > MaxMinutes * 60
           THEN /\ toast' = "File Too Long"
                /\ objectUrls'[probe.url].revoked
                /\ UNCHANGED <<uploadedFile, audioUrl>>
           ELSE /\ uploadedFile' = probe.file
                /\ audioUrl' = probe.url]_vars

C4_Witness ==
  /\ toast = "File Too Long"
  /\ uploadedFile = NoFile
  /\ objectUrls = <<[kind |-> "upload", revoked |-> TRUE]>>

\* C5 as claimed: whichever way a duration probe ends, the object URL created
\* for it is revoked.
C5_ProbeUrlAlwaysRevoked ==
  [][\A probe \in probes :
       (ProbeLoaded(probe) \/ ProbeError(probe)) =>
         objectUrls'[probe.url].revoked]_vars

\* C5, amended: the object URL created for a duration probe is revoked when
\* the probe rejects the file (too long, undecodable); when the probe accepts
\* the file the URL is not revoked: it becomes the playback URL.
C5_ProbeUrlRevokedOnReject ==
  [][\A probe \in probes :
       (ProbeLoaded(probe) \/ ProbeError(probe)) =>
         IF \/ probe.file.duration = Undecodable
            \/ probe.file.duration > MaxMinutes * 60
           THEN objectUrls'[probe.url].revoked /\ audioUrl' = audioUrl
           ELSE ~objectUrls'[probe.url].revoked /\ audioUrl' = probe.url]_vars

C5_Witness ==
  /\ toast = "File Uploaded"
  /\ probes = {}
  /\ objectUrls = <<[kind |-> "upload", revoked |-> TRUE],
                    [kind |-> "upload", revoked |-> FALSE]>>
  /\ audioUrl = 2

\* C6 as claimed: an object URL created for an upload and not revoked is the
\* URL of the uploaded file now held, or belongs to a probe still pending.
C6_OnlyHeldUploadUrlLive ==
  \A url \in 1..Len(objectUrls) :
    (objectUrls[url].kind = "upload" /\ ~objectUrls[url].revoked) =>
      \/ url = audioUrl
      \/ \E probe \in probes : probe.url = url

\* C7: a result event makes onresult call onTranscriptionComplete once when it
\* carries a final result and not at all when it carries interim results
\* only; the transcript grows by each final segment of the event followed by
\* a blank, once, and the host receives the new transcript. (Result events
\* are the steps that advance eventCount.)
C7_FinalSegmentOnce ==
  [][eventCount' # eventCount =>
       \A k \in 1..Len(sessions), changed \in Changes :
         OnResult(k, changed) =>
           IF \E i \in 1..Len(changed) : changed[i].isFinal
             THEN /\ resultCalls' = resultCalls + 1
                  /\ transcription' =
                       transcription \o changed[1].transcript \o <<" ">>
                  /\ hostTranscription' = transcription'
             ELSE UNCHANGED <<resultCalls, transcription,
                              hostTranscription>>]_vars

C7_Witness ==
  /\ eventCount = 2
  /\ resultCalls = 1
  /\ transcription = Str_hi \o <<" ">>
  /\ hostTranscription = transcription
  /\ interimTranscription = <<>>
  /\ sessions = <<[phase |-> "running",
                   results |-> <<[transcript |-> Str_hi, isFinal |-> TRUE]>>]>>

\* C8 as claimed: when the current session ends while isRecording is true and
\* recognition.start() does not throw, the session is started again.
C8_RestartWhileRecording ==
  [][\A k \in 1..Len(sessions) :
       (OnEnd(k, TRUE) /\ isRecording /\ recognitionRef = k) =>
         sessions'[k].phase = "starting"]_vars

\* C9: the transcript the host page holds, which is the one the notes
\* formatter receives, equals the recorder's transcript, after every step of
\* the recorder and of the notes generator the page mounts.
C9_HostHoldsTranscript == hostTranscription = transcription

C9_Witness ==
  /\ strategy = "batch"
  /\ transcription = <<"a", " ", "b">>
  /\ hostTranscription = transcription
  /\ notes # <<>>
  /\ toast = "Notes Generated Successfully"

\* C10: generateNotes called while the host's transcript is empty or holds
\* whitespace only shows the "No Content to Summarize" notice, sets no
\* generating flag, starts no generation and leaves the notes held as they
\* were; a generation that completes was started from a transcript with
\* content, so no notes object comes from an empty or blank transcript.
C10_BlankTranscriptRejected ==
  /\ [](\A i \in 1..Len(generations) :
          \E j \in 1..Len(generations[i]) :
            generations[i][j] \notin Whitespace)
  /\ [][(GenerateNotes
           /\ \A i \in 1..Len(hostTranscription) :
                hostTranscription[i] \in Whitespace) =>
          /\ toast' = "No Content to Summarize"
          /\ UNCHANGED <<notes, isGenerating, generations>>]_vars

C10_Witness ==
  /\ toast = "No Content to Summarize"
  /\ hostTranscription = Text_blank
  /\ Len(notes) = 1
  /\ Len(notes[1].keyPoints) = 1
  /\ ~isGenerating
  /\ generations = <<>>

\* The fragments that count as sentences: those of more than
\* MinSentenceLength characters once trimmed, by their index among the pieces
\* frags between runs of '.', '!' and '?'.
LongFragments(frags) ==
  {i \in 1..Len(frags) : Len(Trim(frags[i])) > MinSentenceLength}

Sentence_plants ==
  <<"P", "l", "a", "n", "t", "s", " ", "m", "a", "k", "e", " ", "s", "u",
    "g", "a", "r">>

Sentence_roots ==
  <<"R", "o", "o", "t", "s", " ", "t", "a", "k", "e", " ", "u", "p", " ",
    "w", "a", "t", "e", "r">>

Sentence_leaves ==
  <<"L", "e", "a", "v", "e", "s", " ", "c", "a", "t", "c", "h", " ", "s",
    "u", "n", "l", "i", "g", "h", "t">>

Sentence_hens ==
  <<"H", "e", "n", "s", " ", "l", "a", "y", " ", "b", "r", "o", "w", "n",
    " ", "e", "g", "g", "s">>

\* C11: the key points of the notes a generation produces are the first
\* min(8, k) of the k qualifying fragments of the transcript it was started
\* from, trimmed, in their order in the transcript; the transcript of three
\* qualifying sentences yields these three.
C11_KeyPointsFirstInOrder ==
  [][\A date \in Dates :
       GenerationDone(date) =>
         LET text == Head(generations)
             frags == SplitSentences(text)
             Q == LongFragments(frags)
             n == IF Cardinality(Q) < MaxKeyPoints
                    THEN Cardinality(Q) ELSE MaxKeyPoints
             rank(i) == Cardinality({j \in Q : j <= i})
         IN /\ Len(notes'[1].keyPoints) = n
            /\ \A i \in Q :
                 rank(i) <= n => notes'[1].keyPoints[rank(i)] = Trim(frags[i])
            /\ text = Text_three =>
                 notes'[1].keyPoints =
                   <<Sentence_plants, Sentence_roots, Sentence_leaves>>]_vars

C11_Witness ==
  /\ toast = "Notes Generated Successfully"
  /\ Len(notes) = 1
  /\ Len(notes[1].keyPoints) = MaxKeyPoints
  /\ notes[1].keyPoints[MaxKeyPoints] = Sentence_hens
  /\ hostTranscription = Text_nine

Sentence_fallen ==
  <<"R", "a", "i", "n", " ", "f", "a", "l", "l", "e", "n">>

\* C12 as claimed: a fragment whose trimmed length is 10 or more is a
\* key-point candidate: if it is among the first eight such fragments, it is
\* a key point.
C12_TenOrMoreKept ==
  [][\A date \in Dates :
       GenerationDone(date) =>
         LET frags == SplitSentences(Head(generations))
             C == {i \in 1..Len(frags) :
                     Len(Trim(frags[i])) >= MinSentenceLength}
         IN \A i \in C :
              Cardinality({j \in C : j <= i}) <= MaxKeyPoints =>
                \E k \in 1..Len(notes'[1].keyPoints) :
                  notes'[1].keyPoints[k] = Trim(frags[i])]_vars

\* C12, amended: a fragment is a key-point candidate when its trimmed length
\* is more than 10: every key point is longer than 10 characters, a fragment
\* of 10 characters or fewer is never one, and a fragment of 11 or more is
\* one if it is among the first eight such fragments. Of sentences of nine,
\* ten and eleven characters the last alone is a key point.
C12_MoreThanTenKept ==
  [][\A date \in Dates :
       GenerationDone(date) =>
         LET frags == SplitSentences(Head(generations))
             kp == notes'[1].keyPoints
             C == {i \in 1..Len(frags) : Len(Trim(frags[i])) >= 11}
         IN /\ \A k \in 1..Len(kp) : Len(kp[k]) >= 11
            /\ \A i \in 1..Len(frags) :
                 Len(Trim(frags[i])) <= 10 =>
                   \A k \in 1..Len(kp) : kp[k] # Trim(frags[i])
            /\ \A i \in C :
                 Cardinality({j \in C : j <= i}) <= MaxKeyPoints =>
                   \E k \in 1..Len(kp) : kp[k] = Trim(frags[i])
            /\ Head(generations) = Text_edge => kp = <<Sentence_fallen>>]_vars

C12_Witness ==
  /\ toast = "Notes Generated Successfully"
  /\ hostTranscription = Text_edge
  /\ Len(notes) = 1
  /\ notes[1].keyPoints = <<Sentence_fallen>>

Terms_cells ==
  <<<<"c", "e", "l", "l", "s">>,
    <<"g", "r", "o", "w", ".">>,
    <<"d", "i", "v", "i", "d", "e">>,
    <<"d", "a", "i", "l", "y", "?">>>>

\* C13: the key terms of the notes a generation produces are the first six
\* (or all, if fewer) of the lower-cased whitespace tokens of the transcript
\* that are longer than four characters, are no stop-word and have not
\* occurred before, in the order of their first occurrence; so there are at
\* most six, all different, none a stop-word, none of four characters or
\* fewer.
C13_KeyTermsFirstSix ==
  [][\A date \in Dates :
       GenerationDone(date) =>
         LET words == SplitWords(toLowerCase(Head(generations)))
             terms == notes'[1].uniqueWords
             E == {i \in 1..Len(words) :
                     /\ Len(words[i]) > 4
                     /\ words[i] \notin commonWords
                     /\ \A j \in 1..(i - 1) : words[j] # words[i]}
             n == IF Cardinality(E) < 6 THEN Cardinality(E) ELSE 6
             rank(i) == Cardinality({j \in E : j <= i})
         IN /\ Len(terms) = n
            /\ \A i \in E : rank(i) <= n => terms[rank(i)] = words[i]
            /\ \A k \in 1..Len(terms) :
                 /\ Len(terms[k]) > 4
                 /\ terms[k] \notin commonWords
                 /\ \A l \in 1..Len(terms) : terms[l] = terms[k] => l = k
            /\ Head(generations) = Text_cells => terms = Terms_cells]_vars

C13_Witness ==
  /\ toast = "Notes Generated Successfully"
  /\ hostTranscription = Text_cells
  /\ Len(notes) = 1
  /\ notes[1].uniqueWords = Terms_cells

\* The lines of a document that are not empty, in order.
Lines(doc) ==
  LET starts == {i \in 1..Len(doc) :
                   doc[i] # "\n" /\ (i = 1 \/ doc[i - 1] = "\n")}
      ends == {i \in 1..Len(doc) :
                 doc[i] # "\n" /\ (i = Len(doc) \/ doc[i + 1] = "\n")}
      nth(set, k) == CHOOSE i \in set : Cardinality({j \in set : j <= i}) = k
  IN AsSeq([k \in 1..Cardinality(starts) |->
       SubSeq(doc, nth(starts, k), nth(ends, k))])

StartsWith(s, prefix) ==
  Len(s) >= Len(prefix) /\ SubSeq(s, 1, Len(prefix)) = prefix

Drop(s, k) == SubSeq(s, k + 1, Len(s))

Item(kind, text) == [kind |-> kind, text |-> text]

\* What a line of the Markdown download is: a heading by its lower-cased
\* title, a bullet by its text, a glossary entry without its asterisks, the
\* footer by its date, or the rule.
MarkdownItem(line) ==
  IF StartsWith(line, <<"#", "#", " ">>)
    THEN Item("heading", toLowerCase(Drop(line, 3)))
  ELSE IF StartsWith(line, <<"#", " ">>)
    THEN Item("heading", toLowerCase(Drop(line, 2)))
  ELSE IF StartsWith(line, <<BulletChar, " ">>)
    THEN Item("bullet", Drop(line, 2))
  ELSE IF StartsWith(line, <<"*", "*">>)
    THEN Item("entry", SelectSeq(line, LAMBDA c : c # "*"))
  ELSE IF StartsWith(line, <<"*", "G">>)
    THEN Item("footer",
              SubSeq(line, Len(MarkdownRule) - 4, Len(line) - Len(MarkdownEnd)))
  ELSE Item("rule", <<>>)

\* What line k of the clipboard text is: the first line and a line ending in
\* a colon are headings.
TextItem(line, k) ==
  IF StartsWith(line, <<BulletChar, " ">>)
    THEN Item("bullet", Drop(line, 2))
  ELSE IF StartsWith(line, Drop(TextFooter, 1))
    THEN Item("footer", Drop(line, Len(TextFooter) - 1))
  ELSE IF k = 1
    THEN Item("heading", toLowerCase(line))
  ELSE IF line[Len(line)] = ":"
    THEN Item("heading", toLowerCase(SubSeq(line, 1, Len(line) - 1)))
  ELSE Item("entry", line)

MarkdownItems(doc) ==
  LET lines == Lines(doc)
  IN SelectSeq(AsSeq([k \in 1..Len(lines) |-> MarkdownItem(lines[k])]),
               LAMBDA item : item.kind # "rule")

TextItems(doc) ==
  LET lines == Lines(doc)
  IN AsSeq([k \in 1..Len(lines) |-> TextItem(lines[k], k)])

\* The items both exports of the notes n should consist of.
ItemsOf(n) ==
  <<Item("heading", <<"s", "t", "u", "d", "y", " ", "n", "o", "t", "e", "s">>),
    Item("heading", <<"k", "e", "y", " ", "p", "o", "i", "n", "t", "s">>)>>
    \o [i \in 1..Len(n.keyPoints) |-> Item("bullet", n.keyPoints[i])]
    \o <<Item("heading", <<"a", "b", "b", "r", "e", "v", "i", "a", "t", "i", "o", "n", "s", " ", "&", " ", "k", "e", "y", "w", "o", "r", "d", "s">>)>>
    \o [i \in 1..Len(n.abbreviations) |->
          Item("entry", n.abbreviations[i].term \o <<":", " ">>
                          \o n.abbreviations[i].meaning)]
    \o (IF Len(n.uniqueWords) > 0
          THEN <<Item("heading", <<"k", "e", "y", " ", "t", "e", "r", "m", "s">>)>>
                 \o [i \in 1..Len(n.uniqueWords) |->
                       Item("bullet", n.uniqueWords[i])]
          ELSE <<>>)
    \o <<Item("footer", n.generatedDate)>>

\* C14: the file downloaded and the text copied, made from the same notes,
\* consist of the same items in the same order: the title, the key points
\* heading and the key points, the glossary heading and its entries, the key
\* terms heading and the key terms if there are any and neither if there are
\* none, and the footer with the date. downloadNotes writes these items of
\* the notes held into the file, copyToClipboard hands them to writeText,
\* which puts that text on the clipboard; so, the notes held staying the
\* same, the file and the clipboard text have the same items.
C14_ExportParity ==
  [][/\ (DownloadNotes /\ ~NothingToExport) =>
          MarkdownItems(download') = ItemsOf(notes[1])
     /\ (CopyToClipboard /\ ~NothingToExport) =>
          TextItems(clipboardWrites'[Len(clipboardWrites')]) = ItemsOf(notes[1])
     /\ \A i \in 1..Len(clipboardWrites) :
          ClipboardWritten(i) => clipboard' = clipboardWrites[i]
     /\ (download' # <<>> /\ clipboard' # <<>>) =>
          MarkdownItems(download') = TextItems(clipboard')]_vars

C14_Witness ==
  /\ download # <<>>
  /\ clipboard # <<>>
  /\ Len(notes[1].keyPoints) = 1
  /\ Len(notes[1].uniqueWords) = 0
  /\ copied

\* C15 as claimed: recognition.onerror, by the error it is given: for
\* no-speech and audio-capture it shows no notice and leaves the recording
\* flag as it was; for not-allowed and service-not-allowed it shows the
\* "Microphone Access Required" notice and sets the recording flag to false;
\* for network it shows the "Network Error" notice and leaves the recording
\* flag as it was; and the session continues after an error that leaves the
\* recording flag on: when the browser ends the session the error has
\* failed, while the recording flag is on, the session is the current one and
\* recognition.start() does not throw, the session is started again.
C15_ErrorsByKind ==
  [][\A k \in 1..Len(sessions) :
       /\ \A error \in RecognitionErrors :
            OnError(k, error) =>
              /\ error \in {"no-speech", "audio-capture"} =>
                   UNCHANGED <<toast, isRecording>>
              /\ error \in {"not-allowed", "service-not-allowed"} =>
                   toast' = "Microphone Access Required" /\ isRecording' = FALSE
              /\ error = "network" =>
                   toast' = "Network Error" /\ isRecording' = isRecording
       /\ (/\ OnEnd(k, TRUE)
           /\ sessions[k].phase = "failed"
           /\ isRecording
           /\ recognitionRef = k) =>
            sessions'[k].phase = "starting"]_vars

\* C16: stopRecording sets the recording flag to false, stops the session
\* that recognitionRef names and sets the reference to null, and empties the
\* interim text; then, if the transcript has a character that is no
\* whitespace, it calls onTranscriptionComplete once with the transcript and
\* shows the "transcription complete" notice, and otherwise it shows the "no
\* speech was detected" notice and does not call the host. The transcript
\* itself stays as it was.
C16_StopTearsDownAndReports ==
  [][StopRecording =>
       /\ isRecording' = FALSE
       /\ recognitionRef' = 0
       /\ recognitionRef # 0 =>
            sessions'[recognitionRef].phase \notin {"starting", "running"}
       /\ interimTranscription' = <<>>
       /\ transcription' = transcription
       /\ IF \E i \in 1..Len(transcription) : transcription[i] \notin Whitespace
            THEN /\ hostCalls' # hostCalls
                 /\ hostTranscription' = transcription
                 /\ toast' = "Recording Stopped: transcription complete"
            ELSE /\ UNCHANGED <<hostTranscription, hostCalls>>
                 /\ toast' = "Recording Stopped: no speech was detected"]_vars

C16_Witness ==
  /\ toast = "Recording Stopped: no speech was detected"
  /\ ~isRecording
  /\ recognitionRef = 0
  /\ sessions = <<[phase |-> "stopping", results |-> <<>>]>>
  /\ transcription = <<>>
  /\ hostCalls = 0

\* C17: transcribeAudio called while no file is held shows the "No File
\* Selected" notice and nothing else: no transcription call is started, no
\* object URL is created, the transcribing flag and the transcript stay as
\* they were and the host is not called.
C17_NoFileNoTranscription ==
  [][(TranscribeAudio /\ uploadedFile = NoFile) =>
       /\ toast' = "No File Selected"
       /\ UNCHANGED <<jobs, objectUrls, isTranscribing, transcription,
                      hostTranscription, hostCalls>>]_vars

C17_Witness ==
  /\ toast = "No File Selected"
  /\ uploadedFile = NoFile
  /\ Len(jobs) = 1
  /\ isTranscribing

\* C18: when a transcription call fails, while the model loads or in the
\* engine, the "Transcription Failed" notice is shown, the transcribing flag
\* is set to false, the call is over and no other is started (no retry), the
\* transcript keeps its value and the host is not called.
C18_EngineFailureReported ==
  [][\A i \in 1..Len(jobs) :
       TranscribeFailed(i) =>
         /\ toast' = "Transcription Failed"
         /\ isTranscribing' = FALSE
         /\ Len(jobs') = Len(jobs) - 1
         /\ \A j \in 1..Len(jobs') : \E l \in 1..Len(jobs) : jobs'[j] = jobs[l]
         /\ Len(objectUrls') = Len(objectUrls)
         /\ UNCHANGED <<transcription, hostTranscription, hostCalls>>]_vars

C18_Witness ==
  /\ toast = "Transcription Failed"
  /\ ~isTranscribing
  /\ jobs = <<>>
  /\ transcription = <<"a", " ", "b">>
  /\ \E url \in 1..Len(objectUrls) :
       objectUrls[url].kind = "engine" /\ ~objectUrls[url].revoked

\* The text fragments found in a result, in order.
FragmentsOf(r) ==
  IF r.kind \in {"string", "text"} THEN <<r.text>>
  ELSE IF r.kind \in {"array", "chunks"}
    THEN [i \in 1..Len(r.items) |->
            IF r.items[i].kind = "other" THEN <<>> ELSE r.items[i].text]
  ELSE <<>>

\* The fragments fs one after the other, sep between two of them.
RECURSIVE Glue(_, _)
Glue(fs, sep) ==
  IF Len(fs) = 0 THEN <<>>
  ELSE IF Len(fs) = 1 THEN fs[1]
  ELSE fs[1] \o sep \o Glue(Tail(fs), sep)

NoWhitespace(s) == SelectSeq(s, LAMBDA c : c \notin Whitespace)

\* C19 as claimed: the text handed to the cleanup is the fragments of the
\* result one after the other, and it is not empty if a fragment is not.
C19_FragmentsConcatenated ==
  stage \in {"raw", "cleaned", "done"} =>
    LET fs == FragmentsOf(engineResult)
    IN /\ inText = Glue(fs, <<>>)
       /\ (\E i \in 1..Len(fs) : fs[i] # <<>>) => inText # <<>>

\* C19, amended: the text handed to the cleanup is, for a string, the string;
\* for an object with a text field, that text, whatever chunks it has; for
\* an array and for an object with a chunks array only, the fragments in
\* order with one blank between two of them, less the whitespace at both
\* ends, so that without its whitespace it is the fragments one after the
\* other without theirs; for any other result it is empty.
C19_FragmentsJoinedWithBlanks ==
  stage \in {"raw", "cleaned", "done"} =>
    LET fs == FragmentsOf(engineResult)
        g == Glue(fs, <<" ">>)
    IN /\ engineResult.kind \in {"string", "text"} =>
            inText = engineResult.text
       /\ engineResult.kind \in {"array", "chunks"} =>
            /\ \E i \in 0..Len(g), j \in 0..Len(g) :
                 /\ inText = SubSeq(g, i + 1, j)
                 /\ \A k \in 1..i : g[k] \in Whitespace
                 /\ \A k \in (j + 1)..Len(g) : g[k] \in Whitespace
            /\ inText # <<>> =>
                 inText[1] \notin Whitespace /\ inText[Len(inText)] \notin Whitespace
            /\ NoWhitespace(inText) = NoWhitespace(Glue(fs, <<>>))
       /\ engineResult.kind = "none" => inText = <<>>

C19_Witness ==
  /\ stage = "raw"
  /\ engineResult.kind = "array"
  /\ engineResult.items = <<[kind |-> "text", text |-> Str_b],
                            [kind |-> "string", text |-> Str_ba]>>
  /\ inText = <<"b", " ", "b", " ", "a">>

\* The final segments of a result event, each followed by a blank.
FinalSegments(changed) ==
  Glue([i \in 1..Len(changed) |->
          IF changed[i].isFinal THEN changed[i].transcript \o <<" ">> ELSE <<>>],
       <<>>)

\* C20: in the live strategy every step either is clearTranscription, which
\* empties the transcript, or is a result event, after which the transcript
\* is what it was followed by the event's final segments, each with a blank
\* after it, or leaves the transcript as it was; so but for a clear the old
\* transcript is always the beginning of the new one.
C20_LiveTranscriptAppendOnly ==
  [][strategy = "live" =>
       /\ \/ transcription' = transcription
          \/ ClearTranscription
          \/ \E k \in 1..Len(sessions), changed \in Changes :
               /\ OnResult(k, changed)
               /\ transcription' = transcription \o FinalSegments(changed)
       /\ \/ /\ Len(transcription') >= Len(transcription)
             /\ SubSeq(transcription', 1, Len(transcription)) = transcription
          \/ ClearTranscription]_vars

C20_Witness ==
  /\ strategy = "live"
  /\ resultCalls = 2
  /\ transcription = Str_hi \o <<" ">> \o Str_hi \o <<" ">>
  /\ toast = "Recording Stopped: transcription complete"

\* C21 as claimed: the end of a session that stop() was called on, arriving
\* when recording is on again and a session is held, starts that session
\* again whenever recognition.start() does not throw: a session is re-opened
\* after stop().
C21_PendingRestartReopens ==
  [][\A k \in 1..Len(sessions) :
       (/\ OnEnd(k, TRUE)
        /\ sessions[k].phase = "stopping"
        /\ isRecording
        /\ recognitionRef # 0) =>
         sessions'[k].phase = "starting"]_vars

\* C22: while the engine call of a transcribeAudio is in flight the
\* in-progress flag is true, and the next state has it false exactly when the
\* step is that call returning or throwing: nothing else (no timer, no clear,
\* no upload) takes it down. Once no transcribeAudio is in flight the flag is
\* false.
C22_FlagWhileEngineRuns ==
  /\ [](/\ \A i \in 1..Len(jobs) : jobs[i].stage = "running" => isTranscribing
        /\ jobs = <<>> => ~isTranscribing)
  /\ [][\A i \in 1..Len(jobs) :
          jobs[i].stage = "running" =>
            (~isTranscribing' <=>
               \/ TranscribeFailed(i)
               \/ \E result \in EngineResults : EngineReturned(i, result))]_vars

C22_Witness ==
  /\ Len(jobs) = 1
  /\ jobs[1].stage = "running"
  /\ isTranscribing
  /\ toast = "Workspace Cleared"
  /\ uploadedFile = NoFile

\* C27: driven through the buttons (Transcribe is disabled while the
\* in-progress flag is set or no file is held), at most one transcribeAudio,
\* and so at most one engine call, is in flight in every reachable state,
\* whatever uploads and clears come in between.
C27_OneEngineCallInFlight == Len(jobs) <= 1

C27_Witness ==
  /\ Len(jobs) = 1
  /\ jobs[1].stage = "running"
  /\ isTranscribing
  /\ toast = "File Uploaded"
  /\ audioUrl = 3
  /\ objectUrls[1].revoked

\* C23 as claimed: once the workspace is cleared the recorder's transcript
\* and the host's stay empty until a new transcribeAudio is started. With no
\* file held and an empty transcript (the state clearWorkspace leaves, and
\* the initial one) Transcribe is disabled, so no step from such a state
\* starts a transcription and every step must leave both transcripts empty.
C23_ClearedStaysEmpty ==
  [][(/\ strategy = "batch"
      /\ uploadedFile = NoFile
      /\ transcription = <<>>
      /\ hostTranscription = <<>>) =>
       (transcription' = <<>> /\ hostTranscription' = <<>>)]_vars

\* C24 as claimed: when two files of allowed type and acceptable duration
\* were selected one after the other and both duration probes have completed
\* (two object URLs were created for uploads, neither is revoked, no probe is
\* pending), the playback URL, which is set together with the uploaded file,
\* is the one created for the file selected last.
C24_LatestUploadWins ==
  (/\ strategy = "batch"
   /\ probes = {}
   /\ Len(objectUrls) = 2
   /\ \A url \in 1..2 :
        objectUrls[url].kind = "upload" /\ ~objectUrls[url].revoked) =>
    audioUrl = 2

\* C25 as claimed: whichever way transcribeAudio ends once it has created the
\* object URL for the engine, by the engine returning or by a throw, that URL
\* is revoked.
C25_EngineUrlAlwaysRevoked ==
  [][\A i \in 1..Len(jobs) :
       (/\ jobs[i].url # 0
        /\ \/ TranscribeFailed(i)
           \/ \E result \in EngineResults : EngineReturned(i, result)) =>
         objectUrls'[jobs[i].url].revoked]_vars

\* C26: the cleaned list has no two adjacent words that are equal ignoring
\* case; cleaning it again, as a list or after joining it with blanks and
\* splitting it, gives the same list; and a text that is one word repeated,
\* in whatever case, any number of times is cleaned to one word, its last
\* occurrence.
C26_CleanupIdempotent ==
  stage # "raw" =>
    LET ws == SplitWords(inText)
    IN /\ \A i \in 1..(Len(outWords) - 1) :
            toLowerCase(outWords[i]) # toLowerCase(outWords[i + 1])
       /\ CleanWords(outWords) = outWords
       /\ CleanWords(SplitWords(Join(outWords))) = outWords
       /\ (/\ ws # <<>>
           /\ \A i \in 1..Len(ws) : toLowerCase(ws[i]) = toLowerCase(ws[1])) =>
            outWords = <<ws[Len(ws)]>>

C26_Witness ==
  /\ stage = "cleaned"
  /\ SplitWords(inText) = << <<"a">>, <<"A">>, <<"a">> >>
  /\ outWords = << <<"a">> >>

\* C28 as claimed: whenever a notes object is held, downloadNotes downloads
\* it and copyToClipboard hands its text to the clipboard; neither answers
\* with its "no notes" notice.
C28_HeldNotesExported ==
  [][notes # <<>> =>
       /\ DownloadNotes =>
            (toast' = "Download Started" /\ download' = markdownContent(notes[1]))
       /\ CopyToClipboard =>
            /\ toast' # "No Notes to Copy"
            /\ clipboardWrites' =
                 Append(clipboardWrites, textContent(notes[1]))]_vars

\* C29 as claimed: the notes stored when a generation completes are the notes
\* of the transcript the host holds at that moment.
C29_NotesFromCurrentTranscript ==
  [][\A date \in Dates :
       GenerationDone(date) =>
         notes' = <<generateMockNotes(hostTranscription, date)>>]_vars

\* C30: an upload that is rejected, at once for its type or by its duration
\* probe for being too long or undecodable, leaves the uploaded file, its
\* playback URL, the transcript and the in-progress flag as they were, and
\* the playback URL held is not revoked by it.
C30_RejectedUploadKeepsState ==
  [][(\/ \E file \in Files :
          ~IsAllowedType(file.type) /\ HandleFileUpload(file)
      \/ \E probe \in probes :
          TooLong(probe.file.duration) /\ ProbeLoaded(probe)
      \/ \E probe \in probes : ProbeError(probe)) =>
       /\ UNCHANGED <<uploadedFile, audioUrl, transcription, isTranscribing>>
       /\ toast' \in {"Invalid File Type", "File Too Long", "Invalid Audio File"}
       /\ audioUrl # 0 =>
            objectUrls'[audioUrl].revoked = objectUrls[audioUrl].revoked]_vars

C30_Witness ==
  /\ strategy = "batch"
  /\ toast = "Invalid Audio File"
  /\ uploadedFile = [type |-> "audio/mp3", duration |-> MaxMinutes * 60]
  /\ audioUrl = 1
  /\ objectUrls = <<[kind |-> "upload", revoked |-> FALSE],
                    [kind |-> "engine", revoked |-> TRUE],
                    [kind |-> "upload", revoked |-> TRUE]>>
  /\ transcription = <<"a", " ", "b">>

====
